---- MODULE Spec2Model ----
(***************************************************************************)
(* A model of the ssquant-ai assistant (src/ai_cmd): the conversation      *)
(* store of GPTClient, and the two repair-loop controllers,                *)
(* IntegrationManager.run_backtest and                                     *)
(* WorkflowManager._run_backtest_and_report.                               *)
(*                                                                         *)
(* The remote text-generation service, the tokenizer, the file system, the *)
(* clock and the executed strategy process are the environment: their      *)
(* answers are inputs drawn from small sets.                               *)
(***************************************************************************)
EXTENDS Integers, Sequences, FiniteSets, TLC

(***************************************************************************)
(* Program constants.                                                      *)
(***************************************************************************)
\* config.MAX_ITERATIONS
MAX_ITERATIONS == 5
\* GPTClient.max_tokens
max_tokens == 60000
\* GPTClient.max_history_messages
max_history_messages == 10
\* count_messages_tokens adds 10 tokens per message for the message format
MessageOverhead == 10
\* count_tokens falls back to len(text) // 4 when the tokenizer raises
CharsPerToken == 4

(***************************************************************************)
(* Bounds of the model.                                                    *)
(***************************************************************************)
\* how many messages are appended to one conversation
MaxAppends == 3
\* the interpreter's recursion limit, counted in nested run_backtest calls
RecursionLimit == 7
\* the last value of the one-second clock that names the saved files
MaxTime == 1
\* how many operations the caller invokes on one controller
MaxCalls == 2
\* how many parts a text given to the parser has
MaxParts == 2
\* how many lines the executed process writes
MaxLines == 299
\* how many lines a child writes into the pipe
MaxOutput == 3
\* how many children one call of run_backtest starts
MaxSpawns == 2
\* how many lines the output of a run has, and how many different paths its
\* markers announce
MaxOutLines == 2
\* how many times in a row the caller resets the conversation
MaxResets == 2
MaxPaths == 2
\* the messages of the longest conversation a history starts from
MaxHistory == 11

VARIABLES
  \* ---- GPTClient
  messages,       \* self.messages
  appended,       \* how many messages were appended so far (gives each its seq)
  op,             \* the store operation that ran last
  ret,            \* how it ended: "returned", "raised", "ok", "failure", "True", "False"
  pre,            \* self.messages when that operation was entered
  last,           \* the message the last add_message appended
  resets,         \* how many resets ran in a row, up to now
  saved,          \* the file save_conversation writes and load_conversation reads
  \* ---- the controllers
  controller,     \* which controller this session constructed
  pc,             \* position of the controller call: "idle", "enter", "run", "done"
  result,         \* what the last call returned
  calls,          \* operations the caller has invoked so far
  current_strategy_code,
  current_strategy_path,
  files,          \* the ai_strategies directory: path -> text (NoCode: absent)
  write_failed,   \* a write to that directory has raised in this session
  now,            \* the clock, in seconds
  depth,          \* how deep run_backtest is nested inside itself
  strategy_code,  \* run_backtest's strategy_code argument (NoCode: not given)
  code_to_use,    \* run_backtest's local code_to_use
  executed,       \* the text of the file the last execution ran
  iteration_count,\* WorkflowManager.iteration_count
  data_loaded,    \* WorkflowManager.backtest_engine.data_loaded
  execs,          \* executions of the artifact in the current call
  fixes,          \* fix requests (fix_strategy / report_error) in the current call
  requests,       \* requests sent to the remote service in the current call
  missed,         \* a fix reply of the current call held no extractable code
  fault,          \* what failed in the last step: "none", "remote", "write",
                  \* "spawn", "recursion", "fix_write", "store"
  none_in_messages, \* gpt_client.messages holds a message whose content is None
  conversation,   \* whether gpt_client.messages holds more than the system
                  \* message, and conversation_history any entry
  new_code,       \* what extract_code returned in the last operation (NoCode
                  \* when it returned None or was not called)
  \* ---- CodeParser
  text,           \* the text given to the parser
  extract_result, \* what extract_code returned for it
  validate_result,\* what _validate_code returned for it
  \* ---- the error excerpt of fix_strategy
  written,        \* the lines the executed process wrote
  stream_mode,    \* run_backtest was called with stream and a callback
  ran,            \* the process has run and failed
  error_output,   \* fix_strategy's error_output, split into lines
  error_info,     \* fix_strategy's error_info, as lines
  returned,       \* what run_backtest returned: the lines of the process in the
                  \* failure message or in backtest_results['output']
  \* ---- run_backtest with stream and a callback
  spc,            \* where run_backtest stands: "call", "loop", "wait", "after",
                  \* "returned", "interrupted" ("idle": not called)
  process,        \* the child: "none", "running", "exited", "reaped"
  to_write,       \* lines the child has still to write
  piped,          \* lines written into the pipe and not read yet
  output_lines,   \* lines run_backtest has collected in output
  return_code,    \* the exit status of the child
  spawned,        \* children started so far
  wrote,          \* lines the running child has written so far
  sink,           \* the lines handed to the caller's callback, each with the
                  \* child it came from
  \* ---- the results of a run that exited with status 0
  full_output,    \* run_backtest's full_output, as lines
  backtest_results, \* self.backtest_results, with what run_backtest returned
  \* ---- two IntegrationManager sessions in one working directory
  sessions,       \* of each session: its current_strategy_path, where its
                  \* run_backtest stands, whose code it executed last
  directory,      \* ai_strategies: of each path, who wrote it
  clock           \* datetime.now(), in seconds

storeVars == <<messages, appended, op, ret, pre, last, resets, saved>>
ctlVars == <<controller, pc, result, calls, current_strategy_code,
             current_strategy_path, files, write_failed, now, depth, strategy_code, code_to_use,
             executed, iteration_count, data_loaded, execs, fixes, requests,
             missed, fault, none_in_messages, new_code, conversation>>
parseVars == <<text, extract_result, validate_result>>
excerptVars == <<written, stream_mode, ran, error_output, error_info, returned>>
streamVars == <<spc, process, to_write, piped, output_lines, return_code, spawned,
                wrote, sink>>
resultVars == <<full_output, backtest_results>>
sessionVars == <<sessions, directory, clock>>
restVars == <<resultVars, sessionVars>>
auxVars == <<parseVars, excerptVars, streamVars, restVars>>
vars == <<storeVars, ctlVars, auxVars>>

(***************************************************************************)
(* GPTClient: the conversation store (src/ai_cmd/gpt_client.py).           *)
(*                                                                         *)
(* A content is what the store can learn about a text: whether it is a     *)
(* string at all (the service may answer with content null), whether the   *)
(* tokenizer encodes it, how many tokens it then yields, and its length in *)
(* characters.                                                             *)
(***************************************************************************)
Text(tok, len) ==
  [isNone |-> FALSE, encodes |-> TRUE, tokens |-> tok, chars |-> len, utf8 |-> TRUE]
\* a text the tokenizer refuses (tiktoken raises on special tokens)
Unencodable(len) ==
  [isNone |-> FALSE, encodes |-> FALSE, tokens |-> 0, chars |-> len, utf8 |-> TRUE]
NoneContent ==
  [isNone |-> TRUE, encodes |-> FALSE, tokens |-> 0, chars |-> 0, utf8 |-> TRUE]
EmptyText == Text(0, 0)

SystemPrompt == Text(50, 40)
SmallText == Text(20, 70)
BigText == Text(29950, 100000)
HugeText == Text(70000, 250000)
\* a text of more than half of max_tokens that fits with the system prompt
LargeText == Text(40000, 140000)
SpecialText == Unencodable(119800)
\* a text with half of a surrogate pair in it (a str that Python holds and
\* the tokenizer counts, and that has no UTF-8 encoding)
SurrogateText == [Text(21, 71) EXCEPT !.utf8 = FALSE]

Texts == {SmallText, BigText, LargeText, HugeText, SpecialText}
Contents == Texts \cup {NoneContent}
Roles == {"system", "user", "assistant"}

Message(role, content, seq) == [role |-> role, content |-> content, seq |-> seq]

\* GPTClient.__init__ / reset_messages: the conversation of the system prompt alone
SystemMessage == Message("system", SystemPrompt, 0)

\* count_tokens raises when even the fallback len(text) fails: text is None
CountRaises(content) == content.isNone

count_tokens(content) ==
  IF content.encodes THEN content.tokens ELSE content.chars \div CharsPerToken

RECURSIVE SumTokens(_)
SumTokens(msgs) ==
  IF msgs = <<>> THEN 0
  ELSE count_tokens(Head(msgs).content) + SumTokens(Tail(msgs))

count_messages_tokens(msgs) == SumTokens(msgs) + MessageOverhead * Len(msgs)

\* count_messages_tokens raises as soon as one message's content is None
CountMessagesRaises(msgs) == \E i \in 1..Len(msgs) : CountRaises(msgs[i].content)

\* lines 72-82: group the messages after the system one, a user message with the
\* assistant message that follows it, any other message alone
RECURSIVE Pairs(_)
Pairs(rest) ==
  IF rest = <<>> THEN <<>>
  ELSE IF Len(rest) >= 2 /\ rest[1].role = "user" /\ rest[2].role = "assistant"
       THEN <<SubSeq(rest, 1, 2)>> \o Pairs(SubSeq(rest, 3, Len(rest)))
       ELSE <<SubSeq(rest, 1, 1)>> \o Pairs(Tail(rest))

\* s[:n]: the oldest n instead of the newest
FirstN(s, n) == IF Len(s) <= n THEN s ELSE SubSeq(s, 1, n)

\* s[-n:]
LastN(s, n) == IF Len(s) <= n THEN s ELSE SubSeq(s, Len(s) - n + 1, Len(s))

Reverse(s) == [i \in 1..Len(s) |-> s[Len(s) + 1 - i]]

\* lines 89-94: walk the groups newest first, extend the kept list with each
\* group that still fits, stop at the first that does not
RECURSIVE Retain(_, _, _)
Retain(kept, current_tokens, groups) ==
  IF groups = <<>> THEN kept
  ELSE LET pair == Head(groups)
           pair_tokens == SumTokens(pair)
       IN IF current_tokens + pair_tokens > max_tokens THEN kept
          ELSE Retain(kept \o pair, current_tokens + pair_tokens, Tail(groups))

\* a trim that restarts the list from the newest message instead of the first
TrimStartKeepsNewest(msgs) == <<msgs[Len(msgs)]>>

\* lines 68, 85: the list the kept groups are added to: the system message
TrimStart(msgs) == <<msgs[1]>>

\* trim_conversation_history, on a conversation whose sizes can be estimated
trim_conversation_history(msgs) ==
  IF count_messages_tokens(msgs) <= max_tokens THEN msgs
  ELSE Retain(TrimStart(msgs), count_tokens(msgs[1].content),
              Reverse(LastN(Pairs(Tail(msgs)), max_history_messages)))

\* add_message: append, then trim; the trim raises at its first line, before it
\* changes anything, when a size cannot be estimated
AddResult(msgs, m) ==
  LET appendedMsgs == Append(msgs, m)
  IN IF CountMessagesRaises(appendedMsgs)
     THEN [messages |-> appendedMsgs, raised |-> TRUE]
     ELSE [messages |-> trim_conversation_history(appendedMsgs), raised |-> FALSE]

\* no file yet
NoFile == [exists |-> FALSE, complete |-> FALSE, items |-> <<>>]

InitStore ==
  /\ messages = <<SystemMessage>>
  /\ appended = 0
  /\ op = "init"
  /\ ret = "returned"
  /\ pre = <<SystemMessage>>
  /\ last = SystemMessage
  /\ resets = 0
  /\ saved = NoFile

\* a conversation of n earlier messages after the system one, as add_message
\* and get_response build it: users only or users and assistants in turn, of
\* small texts and at most one big one; the earlier messages are numbered
\* below the system message's 0, oldest first
History(n, inTurn, big) ==
  <<SystemMessage>> \o
  [k \in 1..n |->
     Message(IF inTurn /\ k % 2 = 0 THEN "assistant" ELSE "user",
             IF (big = "oldest" /\ k = 1) \/ (big = "newest" /\ k = n)
             THEN BigText ELSE SmallText,
             k - n - 1)]

\* the ones no trim has touched: their estimated size is within max_tokens
Histories ==
  {h \in {History(n, inTurn, big) :
            n \in 0..MaxHistory, inTurn \in BOOLEAN, big \in {"none", "oldest", "newest"}} :
     count_messages_tokens(h) <= max_tokens}

\* a store later in its life: a conversation stands in it
InitHistory ==
  /\ messages \in Histories
  /\ appended = 0
  /\ op = "init"
  /\ ret = "returned"
  /\ pre = messages
  /\ last = SystemMessage
  /\ resets = 0
  /\ saved = NoFile

add_message(role, content) ==
  /\ appended < MaxAppends
  /\ LET m == Message(role, content, appended + 1)
         r == AddResult(messages, m)
     IN /\ messages' = r.messages
        /\ ret' = IF r.raised THEN "raised" ELSE "returned"
        /\ last' = m
  /\ appended' = appended + 1
  /\ op' = "add_message"
  /\ pre' = messages
  /\ resets' = 0
  /\ UNCHANGED <<ctlVars, auxVars, saved>>

\* lines 122-128 of get_response, 158-164 of get_stream_response: the size check
\* before the request. It yields the conversation that is sent, or a raise.
BeforeRequest(msgs) ==
  IF CountMessagesRaises(msgs) THEN [messages |-> msgs, raised |-> TRUE]
  ELSE [messages |-> IF count_messages_tokens(msgs) > max_tokens
                     THEN trim_conversation_history(msgs) ELSE msgs,
        raised |-> FALSE]

\* get_response: reply.error when the remote call raises; otherwise reply.content
\* is the content of the reply's message (None included)
get_response(reply) ==
  /\ appended < MaxAppends
  /\ op' = "get_response"
  /\ pre' = messages
  /\ resets' = 0
  /\ UNCHANGED <<ctlVars, auxVars, saved>>
  /\ LET b == BeforeRequest(messages)
     IN IF b.raised \/ reply.error
        THEN /\ messages' = b.messages
             /\ ret' = "failure"
             /\ UNCHANGED <<appended, last>>
        ELSE LET m == Message("assistant", reply.content, appended + 1)
                 r == AddResult(b.messages, m)
             IN /\ messages' = r.messages
                /\ ret' = IF r.raised THEN "failure" ELSE "ok"
                /\ last' = m
                /\ appended' = appended + 1

\* lines 175-185: the chunks whose content is a non-empty string are joined; a
\* reply without any such chunk is collected as the empty string
Collected(content) == IF content.isNone THEN EmptyText ELSE content

\* get_stream_response: reply.error when the call or the stream raises
get_stream_response(reply) ==
  /\ appended < MaxAppends
  /\ op' = "get_stream_response"
  /\ pre' = messages
  /\ resets' = 0
  /\ UNCHANGED <<ctlVars, auxVars, saved>>
  /\ LET b == BeforeRequest(messages)
     IN IF b.raised \/ reply.error
        THEN /\ messages' = b.messages
             /\ ret' = "failure"
             /\ UNCHANGED <<appended, last>>
        ELSE LET m == Message("assistant", Collected(reply.content), appended + 1)
                 r == AddResult(b.messages, m)
             IN /\ messages' = r.messages
                /\ ret' = IF r.raised THEN "failure" ELSE "ok"
                /\ last' = m
                /\ appended' = appended + 1

Reply(error, content) == [error |-> error, content |-> content]
Replies == {Reply(TRUE, NoneContent)} \cup {Reply(FALSE, c) : c \in Contents}

\* reset_messages and clear_conversation assign the same list: the system
\* message of self.system_prompt, which only __init__ sets
SystemAgain(msgs) ==
  IF msgs = <<SystemMessage>> THEN <<SystemMessage, SystemMessage>>
  ELSE <<SystemMessage>>
SystemOnly(msgs) == <<SystemMessage>>

Reset(operation) ==
  /\ resets < MaxResets
  /\ messages' = SystemOnly(messages)
  /\ resets' = resets + 1
  /\ op' = operation
  /\ ret' = "returned"
  /\ pre' = messages
  /\ UNCHANGED <<ctlVars, auxVars, appended, last, saved>>

reset_messages == Reset("reset_messages")
clear_conversation == Reset("clear_conversation")

\* json.dump(self.messages, f, ensure_ascii=False, indent=2) into a file opened
\* with encoding='utf-8': None is written as null, a string between quotes
\* with its characters as they are. The file is written piece by piece, and
\* a character without a UTF-8 encoding raises UnicodeEncodeError at its piece.
ToJSON(m) ==
  [role |-> m.role, seq |-> m.seq,
   content |-> IF m.content.isNone THEN [json |-> "null"]
               ELSE [json |-> "string", chars |-> m.content]]

FromJSON(j) ==
  Message(j.role, IF j.content.json = "null" THEN NoneContent ELSE j.content.chars, j.seq)

Encodable(m) == m.content.isNone \/ m.content.utf8

dump(msgs) ==
  LET bad == {k \in 1..Len(msgs) : ~Encodable(msgs[k])}
      n == IF bad = {} THEN Len(msgs)
           ELSE (CHOOSE k \in bad : \A l \in bad : k <= l) - 1
  IN [exists |-> TRUE, complete |-> bad = {}, items |-> [k \in 1..n |-> ToJSON(msgs[k])]]

\* json.load of a file: raises on a file that is not there or that ends early
load(file) == [k \in 1..Len(file.items) |-> FromJSON(file.items[k])]

save_conversation ==
  /\ saved' = dump(messages)
  /\ ret' = IF saved'.complete THEN "True" ELSE "False"
  /\ op' = "save_conversation"
  /\ pre' = messages
  /\ resets' = 0
  /\ UNCHANGED <<ctlVars, auxVars, messages, appended, last>>

\* a load that empties the conversation before it reads the file
load_conversation_emptying(file) ==
  /\ IF file.exists /\ file.complete
     THEN messages' = load(file) /\ ret' = "True"
     ELSE messages' = <<SystemMessage>> /\ ret' = "False"
  /\ op' = "load_conversation"
  /\ pre' = messages
  /\ resets' = 0
  /\ UNCHANGED <<ctlVars, auxVars, appended, last, saved>>

\* load_conversation(filename): self.messages = json.load(f) is the only
\* statement that changes anything, and it assigns what the file holds
load_conversation_of(file) ==
  /\ IF file.exists /\ file.complete
     THEN messages' = load(file) /\ ret' = "True"
     ELSE messages' = messages /\ ret' = "False"
  /\ op' = "load_conversation"
  /\ pre' = messages
  /\ resets' = 0
  /\ UNCHANGED <<ctlVars, auxVars, appended, last, saved>>

\* load_conversation of the file that save_conversation wrote
load_conversation == load_conversation_of(saved)

\* files that hold a list of messages and that this store did not write: the
\* empty list, and a list whose first message is a user's
FileOf(msgs) == [exists |-> TRUE, complete |-> TRUE,
                 items |-> [k \in 1..Len(msgs) |-> ToJSON(msgs[k])]]
EmptyListFile == FileOf(<<>>)
UserFirstFile == FileOf(<<Message("user", SmallText, 0)>>)
OtherFiles == {EmptyListFile, UserFirstFile}

(***************************************************************************)
(* CodeParser (src/ai_cmd/code_parser.py).                                 *)
(*                                                                         *)
(* A text is a sequence of lines, and a line is what the parser can learn  *)
(* about it: its leading spaces, its length after them, how it begins,     *)
(* which of the words the parser looks for it holds, its brackets in       *)
(* order, and, for a line that is a fence of three backticks, the length   *)
(* of the language tag after them ("python": 6, no tag: 0).                *)
(***************************************************************************)
PlainLine ==
  [id |-> "blank", indent |-> 0, len |-> 0, starts |-> FALSE, continues |-> FALSE,
   kw |-> FALSE, main |-> FALSE, strat |-> FALSE, hasClass |-> FALSE,
   hasStrategy |-> FALSE, brackets |-> <<>>, fence |-> -1]

\* ""
BlankLine == PlainLine
\* "Here is the strategy you asked for:"
ProseLine == [PlainLine EXCEPT !.id = "prose", !.len = 35]
\* "# A class for the Strategy: import it from the main module"
HeadingLine ==
  [PlainLine EXCEPT !.id = "heading", !.len = 58, !.starts = TRUE,
                    !.continues = TRUE, !.kw = TRUE, !.hasClass = TRUE,
                    !.hasStrategy = TRUE]
\* "import numpy as np"
ImportLine ==
  [PlainLine EXCEPT !.id = "import", !.len = 18, !.starts = TRUE,
                    !.continues = TRUE, !.kw = TRUE]
\* "def initialize(context):"
DefLine ==
  [PlainLine EXCEPT !.id = "def", !.len = 24, !.starts = TRUE, !.continues = TRUE,
                    !.kw = TRUE, !.strat = TRUE, !.brackets = <<"(", ")">>]
\* "    run(context)"
CallLine ==
  [PlainLine EXCEPT !.id = "call", !.indent = 4, !.len = 12,
                    !.brackets = <<"(", ")">>]
\* "    result = engine.run_backtest(symbol, start_date, end_date, period)"
LongLine ==
  [PlainLine EXCEPT !.id = "long", !.indent = 4, !.len = 66,
                    !.brackets = <<"(", ")">>]
\* "    data = load("
OpenLine ==
  [PlainLine EXCEPT !.id = "open", !.indent = 4, !.len = 12, !.brackets = <<"(">>]
\* "    return total)"
CloseLine ==
  [PlainLine EXCEPT !.id = "close", !.indent = 4, !.len = 13, !.brackets = <<")">>]
\* "    pair = [low, high)"
MismatchLine ==
  [PlainLine EXCEPT !.id = "mismatch", !.indent = 4, !.len = 18,
                    !.brackets = <<"[", ")">>]
\* 'if __name__ == "__main__":'
MainLine ==
  [PlainLine EXCEPT !.id = "main", !.len = 26, !.continues = TRUE, !.main = TRUE]
\* 'if __name__ == "__main__": import sys; sys.exit(main())'
GuardLine ==
  [PlainLine EXCEPT !.id = "guard", !.len = 55, !.continues = TRUE, !.kw = TRUE,
                    !.main = TRUE, !.brackets = <<"(", "(", ")", ")">>]
\* "```"
Fence == [PlainLine EXCEPT !.id = "fence", !.len = 3, !.fence = 0]
\* "```python"
FencePython == [PlainLine EXCEPT !.id = "fence_python", !.len = 9, !.fence = 6]

\* what is left of a fence's language tag when a pattern matched only a part of it
TagRest(n) == [PlainLine EXCEPT !.id = "tag", !.len = n]

\* extract_code returns None
None == <<>>

Blank(line) == line.len = 0
Indented(line) == line.indent > 0

\* the characters of the lines, each followed by a newline
RECURSIVE Chars(_)
Chars(lines) ==
  IF lines = <<>> THEN 0
  ELSE Head(lines).indent + Head(lines).len + 1 + Chars(Tail(lines))

\* len('\n'.join(lines))
CodeLen(lines) == IF lines = <<>> THEN 0 ELSE Chars(lines) - 1

RECURSIVE DropBlankHead(_)
DropBlankHead(lines) ==
  IF lines # <<>> /\ Blank(Head(lines)) THEN DropBlankHead(Tail(lines)) ELSE lines

RECURSIVE DropBlankTail(_)
DropBlankTail(lines) ==
  IF lines # <<>> /\ Blank(lines[Len(lines)])
  THEN DropBlankTail(SubSeq(lines, 1, Len(lines) - 1)) ELSE lines

\* leading white space goes: the blank lines and the indentation of the first line
LStrip(lines) ==
  LET rest == DropBlankHead(lines)
  IN IF rest = <<>> THEN rest ELSE <<[Head(rest) EXCEPT !.indent = 0]>> \o Tail(rest)

\* str.strip()
Strip(lines) == DropBlankTail(LStrip(lines))

(***************************************************************************)
(* _validate_code                                                          *)
(***************************************************************************)
\* len(code) > 200
MinCodeLength == 200

Openers == {"(", "[", "{"}
Closer(c) == IF c = "(" THEN ")" ELSE IF c = "[" THEN "]" ELSE "}"

RECURSIVE BracketsOf(_)
BracketsOf(code) ==
  IF code = <<>> THEN <<>> ELSE Head(code).brackets \o BracketsOf(Tail(code))

\* lines 124-131: FALSE when the loop returns False, TRUE when the loop ends; what
\* is left on the stack when it ends is not looked at
RECURSIVE BracketScan(_, _)
BracketScan(chars, stack) ==
  IF chars = <<>> THEN TRUE
  ELSE IF Head(chars) \in Openers
       THEN BracketScan(Tail(chars), Append(stack, Head(chars)))
       ELSE IF stack = <<>> \/ Closer(stack[Len(stack)]) # Head(chars)
            THEN FALSE
            ELSE BracketScan(Tail(chars), SubSeq(stack, 1, Len(stack) - 1))

Holds(code, word) == \E i \in 1..Len(code) : code[i][word]

ValidateCode(code) ==
  IF ~Holds(code, "kw") THEN FALSE
  ELSE IF \A i \in 1..Len(code) : Blank(code[i]) THEN FALSE
  ELSE IF ~BracketScan(BracketsOf(code), <<>>) THEN FALSE
  ELSE IF Holds(code, "main") THEN TRUE
  ELSE IF Holds(code, "strat") THEN TRUE
  ELSE IF Holds(code, "hasClass") /\ Holds(code, "hasStrategy") THEN TRUE
  ELSE CodeLen(code) > MinCodeLength

(***************************************************************************)
(* extract_code                                                            *)
(***************************************************************************)
\* len(block.strip()) > 50
MinBlockLength == 50

\* lines 21-26: a pattern opens at a fence whose tag begins with the pattern's tag
\* ("python", "py", none, none); the first three skip white space after it
code_block_patterns ==
  << [tag |-> 6, skipsSpace |-> TRUE], [tag |-> 2, skipsSpace |-> TRUE],
     [tag |-> 0, skipsSpace |-> TRUE], [tag |-> 0, skipsSpace |-> FALSE] >>

IsFence(line) == line.fence >= 0
Opens(pattern, line) == line.fence >= pattern.tag

FirstOpen(lines, pattern, from) ==
  LET S == {i \in from..Len(lines) : Opens(pattern, lines[i])}
  IN IF S = {} THEN 0 ELSE CHOOSE i \in S : \A j \in S : i <= j

FirstFence(lines, from) ==
  LET S == {i \in from..Len(lines) : IsFence(lines[i])}
  IN IF S = {} THEN 0 ELSE CHOOSE i \in S : \A j \in S : i <= j

\* the group (.*?) of one match: the rest of the opener's tag, then the lines up
\* to the next fence; raw is the length of the group as re.findall returns it
Capture(pattern, opener, body) ==
  LET rest == opener.fence - pattern.tag
  IN [code |-> IF rest > 0 THEN <<TagRest(rest)>> \o body ELSE body,
      raw |-> IF rest > 0 THEN rest + 1 + Chars(body)
              ELSE IF pattern.skipsSpace THEN Chars(LStrip(body))
              ELSE 1 + Chars(body)]

\* re.findall(pattern, text, re.DOTALL), from line `from` on
RECURSIVE FindAll(_, _, _)
FindAll(lines, pattern, from) ==
  LET j == FirstOpen(lines, pattern, from)
      k == IF j = 0 THEN 0 ELSE FirstFence(lines, j + 1)
  IN IF k = 0 THEN <<>>
     ELSE <<Capture(pattern, lines[j], SubSeq(lines, j + 1, k - 1))>>
            \o FindAll(lines, pattern, k + 1)

\* max(code_blocks, key=len): the first of the longest
Longest(code_blocks) ==
  LET i == CHOOSE i \in 1..Len(code_blocks) :
             /\ \A j \in 1..Len(code_blocks) : code_blocks[j].raw <= code_blocks[i].raw
             /\ \A j \in 1..(i - 1) : code_blocks[j].raw < code_blocks[i].raw
  IN code_blocks[i].code

\* lines 28-34: the longest block of the first pattern whose longest block is valid
RECURSIVE FromFences(_, _)
FromFences(lines, patterns) ==
  IF patterns = <<>> THEN None
  ELSE LET code_blocks == FindAll(lines, Head(patterns), 1)
           extracted_code == IF code_blocks = <<>> THEN None
                             ELSE Strip(Longest(code_blocks))
       IN IF code_blocks # <<>> /\ ValidateCode(extracted_code) THEN extracted_code
          ELSE FromFences(lines, Tail(patterns))

\* a scan that opens a block at every line that could continue one
StartsBlockAtAnyCodeLine(line) == line.continues \/ Indented(line)

\* lines 45-48
StartsBlock(line) == line.starts \/ Indented(line)

\* lines 55-58
EndsBlock(line) == ~Blank(line) /\ ~Indented(line) /\ ~line.continues

\* lines 42-72: the blocks of the unfenced scan; a blank line inside a block is
\* appended twice (lines 64 and 68)
RECURSIVE Scan(_, _, _, _)
Scan(lines, in_block, current_block, code_blocks) ==
  IF lines = <<>>
  THEN IF current_block # <<>> THEN Append(code_blocks, current_block)
       ELSE code_blocks
  ELSE LET line == Head(lines)
           start == ~in_block /\ StartsBlock(line)
           in1 == in_block \/ start
           cur1 == IF start THEN <<>> ELSE current_block
       IN IF ~in1 THEN Scan(Tail(lines), FALSE, cur1, code_blocks)
          ELSE IF EndsBlock(line)
          THEN Scan(Tail(lines), FALSE, <<>>,
                    IF cur1 # <<>> THEN Append(code_blocks, cur1) ELSE code_blocks)
          ELSE Scan(Tail(lines), TRUE,
                    IF Blank(line) THEN cur1 \o <<line, line>> ELSE Append(cur1, line),
                    code_blocks)

\* a test of the length alone
LongEnough(block) == CodeLen(Strip(block)) > MinBlockLength
\* line 77
ValidBlock(block) == CodeLen(Strip(block)) > MinBlockLength /\ ValidateCode(block)
MainBlock(block) == Holds(block, "main")
StrategyBlock(block) == Holds(block, "strat")

\* max(blocks, key=len), for blocks that are texts
LongestBlock(blocks) ==
  blocks[CHOOSE i \in 1..Len(blocks) :
           /\ \A j \in 1..Len(blocks) : CodeLen(blocks[j]) <= CodeLen(blocks[i])
           /\ \A j \in 1..(i - 1) : CodeLen(blocks[j]) < CodeLen(blocks[i])]

\* a choice that takes the longest valid block whatever it holds
FromScanLongest(lines) ==
  LET valid_blocks == SelectSeq(Scan(lines, FALSE, <<>>, <<>>), ValidBlock)
  IN IF valid_blocks = <<>> THEN None ELSE LongestBlock(valid_blocks)

\* lines 75-94
FromScan(lines) ==
  LET valid_blocks == SelectSeq(Scan(lines, FALSE, <<>>, <<>>), ValidBlock)
      main_blocks == SelectSeq(valid_blocks, MainBlock)
      strategy_blocks == SelectSeq(valid_blocks, StrategyBlock)
  IN IF valid_blocks = <<>> THEN None
     ELSE IF main_blocks # <<>> THEN LongestBlock(main_blocks)
     ELSE IF strategy_blocks # <<>> THEN LongestBlock(strategy_blocks)
     ELSE LongestBlock(valid_blocks)

ExtractCode(lines) ==
  LET fenced == FromFences(lines, code_block_patterns)
  IN IF fenced # None THEN fenced ELSE FromScan(lines)

(***************************************************************************)
(* The texts the parser is applied to: up to MaxParts parts, each a line   *)
(* of prose, a fenced block or a run of unfenced code.                     *)
(***************************************************************************)
MainBody == <<ImportLine, MainLine, CallLine>>
ShortStrategy == <<DefLine, CallLine>>
LongStrategy == <<DefLine, CallLine, LongLine>>
SpacedStrategy == <<DefLine, CallLine, BlankLine, LongLine>>
BrokenLong == <<DefLine, CloseLine, LongLine, LongLine>>
Unclosed == <<DefLine, OpenLine>>
Mismatched == <<DefLine, MismatchLine>>
Snippet == <<CallLine>>
Commented == <<HeadingLine, LongLine, LongLine>>

Bodies == {MainBody, ShortStrategy, LongStrategy, SpacedStrategy, BrokenLong,
           Unclosed, Mismatched, Snippet, Commented}

Fenced(opener, body) == <<opener>> \o body \o <<Fence>>
\* a run of unfenced code with the line of prose that ends it
Closed(body) == body \o <<ProseLine>>

Parts ==
  {<<ProseLine>>, <<HeadingLine>>, <<GuardLine>>, <<Fence>>}
    \cup Bodies
    \cup {Fenced(opener, body) : opener \in {Fence, FencePython}, body \in Bodies}
    \cup {Closed(body) : body \in Bodies}

RECURSIVE TextsOf(_)
TextsOf(n) ==
  IF n = 0 THEN {<<>>}
  ELSE LET shorter == TextsOf(n - 1)
       IN shorter \cup {t \o p : t \in shorter, p \in Parts}

NotRun == [done |-> FALSE, code |-> None, valid |-> FALSE]

InitParse ==
  /\ text \in TextsOf(MaxParts)
  /\ extract_result = NotRun
  /\ validate_result = NotRun

\* no parser call is under way
ParseIdle ==
  /\ text = <<>>
  /\ extract_result = NotRun
  /\ validate_result = NotRun

\* CodeParser.extract_code(text)
extract_code ==
  /\ ~extract_result.done
  /\ extract_result' = [done |-> TRUE, code |-> ExtractCode(text), valid |-> FALSE]
  /\ UNCHANGED <<storeVars, ctlVars, excerptVars, streamVars, restVars, text, validate_result>>

\* CodeParser._validate_code(text)
validate_code ==
  /\ ~validate_result.done
  /\ validate_result' = [done |-> TRUE, code |-> None, valid |-> ValidateCode(text)]
  /\ UNCHANGED <<storeVars, ctlVars, excerptVars, streamVars, restVars, text, extract_result>>

NextParse == extract_code \/ validate_code

(***************************************************************************)
(* The controllers. A code text is a number; NoCode is the empty string or *)
(* None. What the remote service replies is seen through                   *)
(* CodeParser.extract_code: the code text it extracts, or NoCode. A remote *)
(* failure yields the failure text of get_response, which holds no code.   *)
(***************************************************************************)
NoCode == 0
Codes == {1, 2}
Extracted == Codes \cup {NoCode}

\* the text get_response returns when the remote call raised (gpt_client.py, line
\* 146): "调用模型出错: ...", an empty line, "请检查:" and three numbered hints
FailureText == <<ProseLine, BlankLine, ProseLine, ProseLine, ProseLine, ProseLine>>

\* the code extract_code finds in the response: the response is the reply of the
\* service or, when the remote call raised, the failure text
CodeOfResponse(remoteOK, extracted) ==
  IF remoteOK THEN extracted
  ELSE IF ExtractCode(FailureText) = None THEN NoCode ELSE extracted

\* lines 150-157, 577-584, 636-643: without code in the response the operation
\* returns before the assignment
SetAnyway(found, current) == found
KeptOrSet(found, current) == IF found # NoCode THEN found ELSE current

\* the files of ai_strategies: "strategy" is 策略_<timestamp>.py, "strategy_mod"
\* is 策略_修改_<timestamp>.py, "named" a file name the caller gave
NoPath == <<"", 0>>
RunPath(t) == <<"strategy", t>>
ModPath(t) == <<"strategy_mod", t>>
NamedPath == <<"named", 0>>
Paths == {RunPath(t) : t \in 0..MaxTime} \cup {ModPath(t) : t \in 0..MaxTime}
           \cup {NamedPath}

\* gpt_client.messages is the system message, conversation_history is []
NoConversation == [messages |-> "system", history |-> "empty"]

InitCtl(c) ==
  /\ controller = c
  /\ pc = "idle"
  /\ result = "none"
  /\ calls = 0
  /\ current_strategy_code = NoCode
  /\ current_strategy_path = NoPath
  /\ files = [p \in Paths |-> NoCode]
  /\ write_failed = FALSE
  /\ now = 0
  /\ depth = 0
  /\ strategy_code = NoCode
  /\ code_to_use = NoCode
  /\ executed = NoCode
  /\ iteration_count = 0
  /\ data_loaded = FALSE
  /\ execs = 0
  /\ fixes = 0
  /\ requests = 0
  /\ missed = FALSE
  /\ fault = "none"
  /\ none_in_messages = FALSE
  /\ new_code = NoCode
  /\ conversation = NoConversation

\* the controller is not inside a call: the caller may invoke an operation
AtRest == pc \in {"idle", "done", "raised"} /\ calls < MaxCalls

callVars == <<depth, strategy_code, code_to_use, executed, iteration_count,
              data_loaded, execs, fixes, requests, missed, new_code, conversation>>

\* the clock moves on, at any moment
Tick ==
  /\ now < MaxTime
  /\ now' = now + 1
  /\ UNCHANGED <<storeVars, auxVars, controller, pc, result, calls, current_strategy_code,
                 current_strategy_path, files, write_failed, callVars, fault,
                 none_in_messages>>

(***************************************************************************)
(* IntegrationManager (src/ai_cmd/integration_module.py).                  *)
(***************************************************************************)
IsIM == controller = "IntegrationManager"

Return(r) == pc' = "done" /\ result' = r

\* the operations whose body stands in a try with except Exception (lines 114 and
\* 161, 219 and 338, 510 and 592, 614 and 655 of integration_module.py);
\* WorkflowManager.handle_user_message has no handler
Guarded == {"generate_strategy", "modify_strategy", "fix_strategy", "run_backtest"}

\* a handler that catches the errors of the file system only
CatchesOSError(operation, exc) ==
  operation \in Guarded /\ exc \in {"write", "spawn", "fix_write"}

\* except Exception catches whatever is raised in a guarded operation
Catches(operation, exc) == operation \in Guarded

\* exc is raised inside the operation: its handler returns r, or there is none and
\* the exception leaves the operation
Raise(operation, exc, r) ==
  IF Catches(operation, exc) THEN Return(r)
  ELSE pc' = "raised" /\ result' = exc

\* add_message appends the prompt to gpt_client.messages; when it returns, the
\* operation appends to conversation_history (lines 136-137, 395-396, 565-566,
\* 622-623)
Asked ==
  [messages |-> "more",
   history |-> IF none_in_messages THEN conversation.history ELSE "more"]

\* an operation that sends one request to the service and executes nothing
OneRequest ==
  execs' = 0 /\ fixes' = 0 /\ requests' = 1 /\ missed' = FALSE /\ conversation' = Asked

\* an operation that ends before it sends a request: add_message raised
NoRequest ==
  execs' = 0 /\ fixes' = 0 /\ requests' = 0 /\ missed' = FALSE /\ conversation' = Asked

\* get_response, lines 139-146: a reply whose content is None is appended to
\* messages, the size check of add_message raises on it, and get_response returns
\* the failure text as it does when the remote call raised
Answered(remoteOK, nullReply) == remoteOK /\ ~nullReply

FaultOfReply(remoteOK, nullReply) ==
  IF ~remoteOK THEN "remote" ELSE IF nullReply THEN "null_reply" ELSE "none"

\* generate_strategy: the extracted code becomes the current strategy; nothing
\* is written to disk and the recorded path stays. When the remote call raised,
\* the response is the failure text of get_response. With a None content in
\* messages add_message raises (line 136) and the handler of line 161 returns.
generate_strategy(remoteOK, nullReply, extracted) ==
  /\ IsIM /\ AtRest
  /\ calls' = calls + 1
  /\ IF none_in_messages
     THEN /\ Raise("generate_strategy", "store", "generate_error")
          /\ fault' = "store"
          /\ NoRequest
          /\ new_code' = NoCode
          /\ UNCHANGED <<current_strategy_code, none_in_messages>>
     ELSE LET strategy_code_ == CodeOfResponse(Answered(remoteOK, nullReply), extracted)
          IN /\ new_code' = strategy_code_
             /\ current_strategy_code' = KeptOrSet(strategy_code_, current_strategy_code)
             /\ Return(IF strategy_code_ # NoCode THEN "generated"
                       ELSE "no_strategy_code")
             /\ fault' = FaultOfReply(remoteOK, nullReply)
             /\ none_in_messages' = (remoteOK /\ nullReply)
             /\ OneRequest
  /\ UNCHANGED <<storeVars, auxVars, controller, current_strategy_path, files,
                 write_failed, now, depth, strategy_code, code_to_use, executed,
                 iteration_count, data_loaded>>

\* save_strategy: writes the current code, then records the path
save_strategy(named, writeOK) ==
  /\ IsIM /\ AtRest
  /\ current_strategy_code # NoCode
  /\ calls' = calls + 1
  /\ LET save_path == IF named THEN NamedPath ELSE RunPath(now)
     IN IF writeOK
        THEN /\ files' = [files EXCEPT ![save_path] = current_strategy_code]
             /\ current_strategy_path' = save_path
        ELSE UNCHANGED <<files, current_strategy_path>>
  /\ write_failed' = (write_failed \/ ~writeOK)
  /\ fault' = IF writeOK THEN "none" ELSE "write"
  /\ UNCHANGED <<storeVars, auxVars, controller, pc, result, current_strategy_code, now,
                 callVars, none_in_messages>>

\* modify_strategy: sets the code and the path, then writes the file
modify_strategy(remoteOK, nullReply, extracted, writeOK) ==
  /\ IsIM /\ AtRest
  /\ current_strategy_code # NoCode
  /\ calls' = calls + 1
  /\ IF none_in_messages
     THEN /\ Raise("modify_strategy", "store", "modify_error")
          /\ fault' = "store"
          /\ NoRequest
          /\ new_code' = NoCode
          /\ UNCHANGED <<current_strategy_code, current_strategy_path, files,
                         write_failed, none_in_messages>>
     ELSE LET modified_code == CodeOfResponse(Answered(remoteOK, nullReply), extracted)
          IN /\ none_in_messages' = (remoteOK /\ nullReply)
             /\ new_code' = modified_code
             /\ OneRequest
             /\ IF modified_code = NoCode
                THEN /\ Return("no_modified_code")
                     /\ fault' = FaultOfReply(remoteOK, nullReply)
                     /\ UNCHANGED <<current_strategy_code, current_strategy_path,
                                    files, write_failed>>
                ELSE /\ current_strategy_code' = modified_code
                     /\ current_strategy_path' = ModPath(now)
                     /\ files' = IF writeOK
                                 THEN [files EXCEPT ![ModPath(now)] = modified_code]
                                 ELSE files
                     /\ write_failed' = (write_failed \/ ~writeOK)
                     /\ fault' = IF writeOK THEN "none" ELSE "write"
                     /\ IF writeOK THEN Return("modified")
                        ELSE Raise("modify_strategy", "write", "modify_error")
  /\ UNCHANGED <<storeVars, auxVars, controller, now, depth, strategy_code,
                 code_to_use, executed, iteration_count, data_loaded>>

\* fix_strategy: one request to the service. Without code in the reply it fails;
\* with code it sets the current code and then overwrites the file of the
\* recorded path, and fails when that write raises (as open('') does).
FixStrategy(extracted, writeOK) ==
  IF extracted = NoCode
  THEN [success |-> FALSE, code |-> current_strategy_code, files |-> files,
        raised |-> FALSE]
  ELSE IF writeOK /\ current_strategy_path # NoPath
       THEN [success |-> TRUE, code |-> extracted,
             files |-> [files EXCEPT ![current_strategy_path] = extracted],
             raised |-> FALSE]
       ELSE [success |-> FALSE, code |-> extracted, files |-> files,
             raised |-> TRUE]

\* fix_strategy when add_message raises (line 565): the handler of line 592
\* returns the failure and nothing has changed
FixNotAsked ==
  [success |-> FALSE, code |-> current_strategy_code, files |-> files,
   raised |-> FALSE]

\* fix_strategy called by the caller itself
fix_strategy(remoteOK, nullReply, extracted, writeOK) ==
  /\ IsIM /\ AtRest
  /\ calls' = calls + 1
  /\ IF none_in_messages
     THEN /\ Raise("fix_strategy", "store", "fix_error")
          /\ fault' = "store"
          /\ NoRequest
          /\ new_code' = NoCode
          /\ UNCHANGED <<current_strategy_code, files, write_failed,
                         none_in_messages>>
     ELSE LET fixed_code == CodeOfResponse(Answered(remoteOK, nullReply), extracted)
              f == FixStrategy(fixed_code, writeOK)
          IN /\ new_code' = fixed_code
             /\ current_strategy_code' = f.code
             /\ files' = f.files
             /\ write_failed' = (write_failed \/ f.raised)
             /\ IF fixed_code = NoCode THEN Return("no_fixed_code")
                ELSE IF f.raised THEN Raise("fix_strategy", "fix_write", "fix_error")
                ELSE Return("fixed")
             /\ fault' = IF f.raised THEN "fix_write"
                         ELSE FaultOfReply(remoteOK, nullReply)
             /\ none_in_messages' = (remoteOK /\ nullReply)
             /\ OneRequest
  /\ UNCHANGED <<storeVars, auxVars, controller, current_strategy_path, now, depth,
                 strategy_code, code_to_use, executed, iteration_count, data_loaded>>

\* the caller calls run_backtest, with or without a strategy_code argument
run_backtest(code) ==
  /\ IsIM /\ AtRest
  /\ calls' = calls + 1
  /\ pc' = "enter"
  /\ depth' = 0
  /\ strategy_code' = code
  /\ execs' = 0
  /\ fixes' = 0
  /\ requests' = 0
  /\ missed' = FALSE
  /\ fault' = "none"
  /\ new_code' = NoCode
  /\ UNCHANGED <<storeVars, auxVars, controller, result, current_strategy_code,
                 current_strategy_path, files, write_failed, now, code_to_use,
                 executed, iteration_count, data_loaded, none_in_messages,
                 conversation>>

\* run_backtest, lines 219-234: choose the code, save it when no path is recorded
\* or the code was passed in. A call nested beyond the interpreter's recursion
\* limit raises RecursionError, which the enclosing except Exception turns into a
\* failure result.
run_backtest_enter(writeOK) ==
  /\ IsIM /\ pc = "enter"
  /\ IF depth >= RecursionLimit
     THEN /\ Raise("run_backtest", "recursion", "error")
          /\ fault' = "recursion"
          /\ UNCHANGED <<code_to_use, current_strategy_path, files, write_failed>>
     ELSE LET c == IF strategy_code # NoCode THEN strategy_code
                   ELSE current_strategy_code
          IN /\ code_to_use' = c
             /\ IF c = NoCode
                THEN /\ Return("no_code")
                     /\ fault' = "none"
                     /\ UNCHANGED <<current_strategy_path, files, write_failed>>
                ELSE IF current_strategy_path = NoPath \/ strategy_code # NoCode
                THEN /\ current_strategy_path' = RunPath(now)
                     /\ write_failed' = (write_failed \/ ~writeOK)
                     /\ fault' = IF writeOK THEN "none" ELSE "write"
                     /\ IF writeOK
                        THEN /\ files' = [files EXCEPT ![RunPath(now)] = c]
                             /\ pc' = "run"
                             /\ UNCHANGED result
                        ELSE /\ Raise("run_backtest", "write", "error")
                             /\ UNCHANGED files
                ELSE /\ pc' = "run"
                     /\ fault' = "none"
                     /\ UNCHANGED <<result, current_strategy_path, files,
                                    write_failed>>
  /\ UNCHANGED <<storeVars, auxVars, controller, calls, current_strategy_code, now, depth,
                 strategy_code, executed, iteration_count, data_loaded, execs,
                 fixes, requests, missed, none_in_messages, new_code, conversation>>

\* a run_backtest that calls itself again whatever fix_strategy answered
AfterFixAlwaysReruns(success) == "enter"

\* what run_backtest does once fix_strategy has answered (lines 276-284 and
\* 316-320): it calls itself with the fixed code, or returns the failure
AfterFix(success) == IF success THEN "enter" ELSE "done"

\* a run_backtest that takes a failed spawn for a failed execution
SpawnsOrFails(spawnOK) == TRUE

\* lines 246, 307: the process runs unless starting it raises
Spawns(spawnOK) == spawnOK

\* run_backtest, lines 236-336: run the file of the recorded path; when starting
\* the process raises, the except of line 338 returns the failure. Exit status 0:
\* ask the service for an analysis and return success. Otherwise call
\* fix_strategy and, when it succeeds, call run_backtest with the fixed code.
\* With a None content in messages neither request is sent: add_message raises
\* inside analyze_backtest_results or fix_strategy, whose handlers return.
run_backtest_execute(spawnOK, exitZero, nullReply, extracted, writeOK) ==
  /\ IsIM /\ pc = "run"
  /\ LET exited_zero == exitZero /\ files[current_strategy_path] # NoCode
         fixed_code == CodeOfResponse(~nullReply, extracted)
         f == IF none_in_messages THEN FixNotAsked
              ELSE FixStrategy(fixed_code, writeOK)
     IN /\ fault' = IF ~spawnOK THEN "spawn"
                    ELSE IF none_in_messages THEN "store"
                    ELSE IF ~exited_zero /\ f.raised THEN "fix_write"
                    ELSE "none"
        /\ new_code' =
             IF Spawns(spawnOK) /\ ~exited_zero /\ ~none_in_messages THEN fixed_code
             ELSE NoCode
        /\ conversation' = IF Spawns(spawnOK) THEN Asked ELSE conversation
        /\ IF ~Spawns(spawnOK)
           THEN /\ Raise("run_backtest", "spawn", "error")
                /\ UNCHANGED <<current_strategy_code, files, write_failed, depth,
                               strategy_code, fixes, missed, executed, execs,
                               requests, none_in_messages>>
           ELSE /\ executed' = files[current_strategy_path]
                /\ execs' = execs + 1
                /\ requests' = IF none_in_messages THEN requests ELSE requests + 1
                /\ none_in_messages' = (none_in_messages \/ nullReply)
                /\ IF exited_zero
                   THEN /\ Return("success")
                        /\ UNCHANGED <<current_strategy_code, files, write_failed,
                                       depth, strategy_code, fixes, missed>>
                   ELSE /\ fixes' = fixes + 1
                        /\ missed' = (missed \/ (~none_in_messages /\ fixed_code = NoCode))
                        /\ current_strategy_code' = f.code
                        /\ files' = f.files
                        /\ write_failed' = (write_failed \/ f.raised)
                        /\ pc' = AfterFix(f.success)
                        /\ IF pc' = "enter"
                           THEN /\ depth' = depth + 1
                                /\ strategy_code' = f.code
                                /\ UNCHANGED result
                           ELSE /\ result' = "failed"
                                /\ UNCHANGED <<depth, strategy_code>>
  /\ UNCHANGED <<storeVars, auxVars, controller, calls, current_strategy_path, now,
                 code_to_use, iteration_count, data_loaded>>

\* a reset that also forgets the strategy
ForgetStrategy(code) == NoCode

\* lines 87-91: the assignments that would forget the strategy are comments
KeepStrategy(code) == code

\* IntegrationManager.reset_conversation: reset_messages leaves the system
\* message alone, conversation_history becomes []. It adds nothing to any
\* state, and is not counted among the calls.
reset_conversation_of_manager ==
  /\ IsIM /\ pc \in {"idle", "done", "raised"}
  /\ conversation' = NoConversation
  /\ none_in_messages' = FALSE
  /\ current_strategy_code' = KeepStrategy(current_strategy_code)
  /\ UNCHANGED <<storeVars, auxVars, controller, pc, result, current_strategy_path,
                 files, write_failed, now, depth, strategy_code, code_to_use, executed,
                 iteration_count, data_loaded, execs, fixes, requests, missed, fault,
                 new_code, calls>>

NextIM ==
  \/ \E remoteOK, nullReply \in BOOLEAN, extracted \in Extracted :
       generate_strategy(remoteOK, nullReply, extracted)
  \/ \E named, writeOK \in BOOLEAN : save_strategy(named, writeOK)
  \/ \E extracted \in Extracted, writeOK \in BOOLEAN :
       \E remoteOK, nullReply \in BOOLEAN :
         modify_strategy(remoteOK, nullReply, extracted, writeOK)
  \/ \E extracted \in Extracted, writeOK \in BOOLEAN :
       \E remoteOK, nullReply \in BOOLEAN :
         fix_strategy(remoteOK, nullReply, extracted, writeOK)
  \/ \E code \in Extracted : run_backtest(code)
  \/ \E writeOK \in BOOLEAN : run_backtest_enter(writeOK)
  \/ \E exitZero, writeOK \in BOOLEAN, extracted \in Extracted :
       \E spawnOK, nullReply \in BOOLEAN :
         run_backtest_execute(spawnOK, exitZero, nullReply, extracted, writeOK)

(***************************************************************************)
(* WorkflowManager (src/ai_cmd/workflow_manager.py). The backtest engine   *)
(* is the environment: run_strategy_code answers success or failure.       *)
(***************************************************************************)
IsWF == controller = "WorkflowManager"

wfIdle == <<current_strategy_path, files, write_failed, now, depth, strategy_code, code_to_use,
            executed>>

\* set_trading_parameters: loads the data
set_trading_parameters(loadOK) ==
  /\ IsWF /\ AtRest
  /\ calls' = calls + 1
  /\ data_loaded' = loadOK
  /\ UNCHANGED <<storeVars, auxVars, controller, pc, result, current_strategy_code,
                 iteration_count, execs, fixes, requests, missed, wfIdle, fault,
                 none_in_messages, new_code, conversation>>

\* reset_conversation: clear_conversation leaves the system message alone
reset_conversation ==
  /\ IsWF /\ AtRest
  /\ calls' = calls + 1
  /\ current_strategy_code' = NoCode
  /\ iteration_count' = 0
  /\ none_in_messages' = FALSE
  /\ conversation' = NoConversation
  /\ UNCHANGED <<storeVars, auxVars, controller, pc, result, data_loaded, execs, fixes,
                 requests, missed, wfIdle, fault, new_code>>

\* handle_user_message: add_message (line 58) stands in no try, and raises with a
\* None content in messages. Without code in the reply it returns the reply; with
\* code it enters _run_backtest_and_report (lines 88-95), which resets the
\* iteration count and makes sure the data is loaded
handle_user_message(nullReply, extracted, loadOK) ==
  /\ IsWF /\ AtRest
  /\ calls' = calls + 1
  /\ IF none_in_messages
     THEN /\ Raise("handle_user_message", "store", "error")
          /\ fault' = "store"
          /\ UNCHANGED <<current_strategy_code, iteration_count, data_loaded,
                         none_in_messages>>
     ELSE LET code == CodeOfResponse(~nullReply, extracted)
          IN /\ none_in_messages' = nullReply
             /\ fault' = IF nullReply THEN "null_reply" ELSE "none"
             /\ IF code = NoCode
                THEN /\ Return("reply")
                     /\ UNCHANGED <<current_strategy_code, iteration_count,
                                    data_loaded>>
                ELSE /\ current_strategy_code' = code
                     /\ iteration_count' = 0
                     /\ data_loaded' = (data_loaded \/ loadOK)
                     /\ IF data_loaded' THEN pc' = "run" /\ UNCHANGED result
                        ELSE Return("no_data")
  /\ execs' = 0
  /\ fixes' = 0
  /\ requests' = 0
  /\ missed' = FALSE
  /\ new_code' = IF none_in_messages THEN NoCode
                 ELSE CodeOfResponse(~nullReply, extracted)
  /\ conversation' = [conversation EXCEPT !.messages = "more"]
  /\ UNCHANGED <<storeVars, auxVars, controller, wfIdle>>

\* a budget test that lets one more failure through
OverBudget(count) == count > MAX_ITERATIONS

\* line 124: the budget test after a failed execution
AtBudget(count) == count >= MAX_ITERATIONS

\* lines 136-146: with fixed code the loop continues, without it returns
AfterReport(fixed_code) == IF fixed_code # NoCode THEN "run" ELSE "done"

\* an execution failure that is not counted
NotCounted(count) == count

\* line 122: self.iteration_count += 1
Counted(count) == count + 1

\* _run_backtest_and_report, one turn of the while loop (lines 102-148).
\* report_results and report_error call add_message before the request.
run_backtest_and_report(success, nullReply, extracted) ==
  /\ IsWF /\ pc = "run"
  /\ IF ~(iteration_count < MAX_ITERATIONS)
     THEN /\ Return("exhausted_after_loop")
          /\ UNCHANGED <<current_strategy_code, iteration_count, execs, fixes,
                         requests, missed, fault, none_in_messages>>
     ELSE /\ execs' = execs + 1
          /\ IF success
             THEN /\ UNCHANGED <<current_strategy_code, iteration_count, fixes,
                                 missed>>
                  /\ IF none_in_messages
                     THEN /\ Raise("handle_user_message", "store", "error")
                          /\ fault' = "store"
                          /\ UNCHANGED <<requests, none_in_messages>>
                     ELSE /\ requests' = requests + 1
                          /\ Return("success")
                          /\ fault' = IF nullReply THEN "null_reply" ELSE "none"
                          /\ none_in_messages' = nullReply
             ELSE /\ iteration_count' = Counted(iteration_count)
                  /\ IF AtBudget(iteration_count')
                     THEN /\ Return("exhausted")
                          /\ UNCHANGED <<current_strategy_code, fixes, requests,
                                         missed, fault, none_in_messages>>
                     ELSE IF none_in_messages
                     THEN /\ Raise("handle_user_message", "store", "error")
                          /\ fault' = "store"
                          /\ UNCHANGED <<current_strategy_code, fixes, requests,
                                         missed, none_in_messages>>
                     ELSE LET fixed_code == CodeOfResponse(~nullReply, extracted)
                          IN /\ fixes' = fixes + 1
                             /\ requests' = requests + 1
                             /\ missed' = (missed \/ fixed_code = NoCode)
                             /\ current_strategy_code' =
                                  IF fixed_code # NoCode THEN fixed_code
                                  ELSE current_strategy_code
                             /\ pc' = AfterReport(fixed_code)
                             /\ result' = IF pc' = "done" THEN "unrepairable"
                                          ELSE result
                             /\ fault' = IF nullReply THEN "null_reply" ELSE "none"
                             /\ none_in_messages' = nullReply
  /\ new_code' =
       IF /\ iteration_count < MAX_ITERATIONS
          /\ ~success
          /\ ~AtBudget(Counted(iteration_count))
          /\ ~none_in_messages
       THEN CodeOfResponse(~nullReply, extracted)
       ELSE NoCode
  /\ conversation' =
       IF /\ iteration_count < MAX_ITERATIONS
          /\ (success \/ ~AtBudget(Counted(iteration_count)))
       THEN [conversation EXCEPT !.messages = "more"]
       ELSE conversation
  /\ UNCHANGED <<storeVars, auxVars, controller, calls, data_loaded, wfIdle>>

NextWF ==
  \/ \E loadOK \in BOOLEAN : set_trading_parameters(loadOK)
  \/ reset_conversation
  \/ \E extracted \in Extracted, loadOK, nullReply \in BOOLEAN :
       handle_user_message(nullReply, extracted, loadOK)
  \/ \E success, nullReply \in BOOLEAN, extracted \in Extracted :
       run_backtest_and_report(success, nullReply, extracted)

(***************************************************************************)
(* The error excerpt of IntegrationManager.fix_strategy (lines 512-556)    *)
(* and the text run_backtest gives it.                                     *)
(*                                                                         *)
(* The executed process writes lines, each to stdout or to stderr. A line  *)
(* is a "marker" when it holds Error, Exception or Traceback, "data" when  *)
(* it holds one of the data keywords and no marker, "plain" otherwise.     *)
(***************************************************************************)
\* error_start = max(0, i-50)
ContextBefore == 50
\* error_end = min(len(error_lines), i+50)
ContextAfter == 50
\* data_error_start = max(0, i-10)
DataBefore == 10
\* min(len(error_lines), i+20)
DataAfter == 20
\* error_lines[-50:]
TailLines == 50

Smaller(a, b) == IF a <= b THEN a ELSE b
Larger(a, b) == IF a >= b THEN a ELSE b

\* what the process wrote: n lines, a marker at line mark, data keywords at lines
\* d1 and d2 (0: none), the lines whose place is in errs written to stderr
Written(n, mark, d1, d2, errs) ==
  [k \in 1..n |->
     [kind |-> IF k = mark THEN "marker" ELSE IF k \in {d1, d2} THEN "data"
               ELSE "plain",
      fd |-> IF k \in errs THEN "err" ELSE "out"]]

KindsOf(lines) == [k \in 1..Len(lines) |-> lines[k].kind]
ToStdout(line) == line.fd = "out"
ToStderr(line) == line.fd = "err"

\* line 267, split at '\n': stdout and stderr share one pipe, every line read ends
\* with a newline
StreamOutput(w) == KindsOf(w) \o <<"empty">>

\* line 313, split at '\n': f"{result.stdout}\n{result.stderr}"
BufferedOutput(w) ==
  KindsOf(SelectSeq(w, ToStdout)) \o <<"empty">>
    \o KindsOf(SelectSeq(w, ToStderr)) \o <<"empty">>

OutputIn(stream, w) == IF stream THEN StreamOutput(w) ELSE BufferedOutput(w)

\* error_output.split('\n'), each line with its place in the output
Numbered(kinds) == [k \in 1..Len(kinds) |-> [no |-> k, kind |-> kinds[k]]]

IsMarker(line) == line.kind = "marker"
IsData(line) == line.kind = "data"

\* lines 515-516: the first line that holds a marker (0: none)
FirstMarker(error_lines) ==
  LET S == {k \in 1..Len(error_lines) : IsMarker(error_lines[k])}
  IN IF S = {} THEN 0 ELSE CHOOSE k \in S : \A j \in S : k <= j

\* a window that runs to the end of the output
WindowEndOfOutput(k, n) == n

\* lines 518-519, for the line at place k of n (k - 1 is the index i)
WindowStart(k) == Larger(1, k - ContextBefore)
WindowEnd(k, n) == Smaller(n, k - 1 + ContextAfter)

\* a loop that ends the window after the first line with a data keyword
DataLinesFromFirst(error_lines) ==
  LET S == {k \in 1..Len(error_lines) : IsData(error_lines[k])}
      firstData == CHOOSE k \in S : \A j \in S : k <= j
  IN IF S = {} THEN <<>>
     ELSE SubSeq(error_lines, Larger(1, firstData - DataBefore),
                 Smaller(Len(error_lines), firstData - 1 + DataAfter))

\* lines 538-544: the loop sets data_error_start at the first line with a data
\* keyword and moves the end of data_error_lines at every such line, so that the
\* last one decides it
DataLines(error_lines) ==
  LET S == {k \in 1..Len(error_lines) : IsData(error_lines[k])}
      firstData == CHOOSE k \in S : \A j \in S : k <= j
      lastData == CHOOSE k \in S : \A j \in S : k >= j
      data_error_start == Larger(1, firstData - DataBefore)
  IN IF S = {} THEN <<>>
     ELSE SubSeq(error_lines, data_error_start,
                 Smaller(Len(error_lines), lastData - 1 + DataAfter))

\* a fix_strategy that looks for the data keywords first
ErrorInfoDataFirst(error_lines) ==
  LET k == FirstMarker(error_lines)
      data_error_lines == DataLines(error_lines)
  IN IF data_error_lines # <<>>
     THEN [done |-> TRUE, branch |-> "data", lines |-> data_error_lines]
     ELSE IF k # 0
     THEN [done |-> TRUE, branch |-> "marker",
           lines |-> SubSeq(error_lines, WindowStart(k),
                            WindowEnd(k, Len(error_lines)))]
     ELSE [done |-> TRUE, branch |-> "tail", lines |-> LastN(error_lines, TailLines)]

\* lines 512-556: the lines of error_info and the branch that chose them
ErrorInfo(error_lines) ==
  LET k == FirstMarker(error_lines)
      data_error_lines == DataLines(error_lines)
  IN IF k # 0
     THEN [done |-> TRUE, branch |-> "marker",
           lines |-> SubSeq(error_lines, WindowStart(k),
                            WindowEnd(k, Len(error_lines)))]
     ELSE IF data_error_lines # <<>>
     THEN [done |-> TRUE, branch |-> "data", lines |-> data_error_lines]
     ELSE [done |-> TRUE, branch |-> "tail", lines |-> LastN(error_lines, TailLines)]

Lengths == {0, 1, 2, 60, 120, MaxLines}
Marks == {0, 1, 2, 51, 100, 101, MaxLines}
DataMarks == {0, 1, 12, 120, MaxLines}

\* nothing goes to stderr, everything, the first line only, all from line 51 on
ErrRanges == {{}, 1..MaxLines, {1}, 51..MaxLines}

NoOutput == <<>>
NoInfo == [done |-> FALSE, branch |-> "none", lines |-> <<>>]
NotReturned == [done |-> FALSE, success |-> FALSE, exit_zero |-> FALSE, lines |-> <<>>]

\* the lines of the process in the message of a run that could not be repaired:
\* full_output at line 284, result.stderr at line 320
FailureMessage(stream, w) == IF stream THEN w ELSE SelectSeq(w, ToStderr)

\* the lines of the process in backtest_results['output']: ''.join(output) at line
\* 286, result.stdout at line 322
SuccessOutput(stream, w) == IF stream THEN w ELSE SelectSeq(w, ToStdout)

InitExcerpt ==
  /\ \E n \in Lengths, mark \in Marks, d1, d2 \in DataMarks,
        errs \in ErrRanges :
       /\ mark <= n /\ d1 <= d2 /\ d2 <= n
       /\ (d1 = 0 => d2 = 0)
       /\ written = Written(n, mark, d1, d2, errs)
  /\ stream_mode = FALSE
  /\ ran = FALSE
  /\ error_output = NoOutput
  /\ error_info = NoInfo
  /\ returned = NotReturned

ExcerptIdle ==
  /\ written = <<>>
  /\ stream_mode = FALSE
  /\ ran = FALSE
  /\ error_output = NoOutput
  /\ error_info = NoInfo
  /\ returned = NotReturned

\* run_backtest, the process has exited with a non-zero status: the text given to
\* fix_strategy (lines 267-275 with stream and a callback, 312-315 without)
run_backtest_failed(stream) ==
  /\ ~ran /\ ~returned.done
  /\ ran' = TRUE
  /\ stream_mode' = stream
  /\ error_output' = Numbered(OutputIn(stream, written))
  /\ UNCHANGED <<storeVars, ctlVars, parseVars, streamVars, restVars, written, error_info,
                 returned>>

\* fix_strategy, lines 512-556
fix_strategy_error_info ==
  /\ ran /\ ~error_info.done
  /\ error_info' = ErrorInfo(error_output)
  /\ UNCHANGED <<storeVars, ctlVars, parseVars, streamVars, restVars, written, stream_mode, ran,
                 error_output, returned>>

\* run_backtest, the fix did not succeed: the failure is returned (lines 284, 320)
run_backtest_unrepaired ==
  /\ ran /\ error_info.done /\ ~returned.done
  /\ returned' = [done |-> TRUE, success |-> FALSE, exit_zero |-> FALSE,
                  lines |-> FailureMessage(stream_mode, written)]
  /\ UNCHANGED <<storeVars, ctlVars, parseVars, streamVars, restVars, written, stream_mode, ran,
                 error_output, error_info>>

\* run_backtest, the process has exited with status 0 (lines 265 and 286-304, 308
\* and 322-336): the results are returned with success
run_backtest_succeeded(stream) ==
  /\ ~ran /\ ~returned.done
  /\ stream_mode' = stream
  /\ returned' = [done |-> TRUE, success |-> TRUE, exit_zero |-> TRUE,
                  lines |-> SuccessOutput(stream, written)]
  /\ UNCHANGED <<storeVars, ctlVars, parseVars, streamVars, restVars, written, ran,
                 error_output, error_info>>

NextExcerpt ==
  \/ \E stream \in BOOLEAN : run_backtest_failed(stream)
  \/ fix_strategy_error_info
  \/ run_backtest_unrepaired
  \/ \E stream \in BOOLEAN : run_backtest_succeeded(stream)

(***************************************************************************)
(* run_backtest with stream and a callback, step by step (lines 244-304,   *)
(* 338-341): the executed process is a child that writes its lines into    *)
(* the pipe and exits; run_backtest reads the pipe line by line, hands     *)
(* every line to the caller's callback, and waits for the child at end of  *)
(* file. The callback may raise, and the caller may be interrupted         *)
(* (KeyboardInterrupt is no Exception: line 338 does not catch it).        *)
(***************************************************************************)
InitStream ==
  /\ spc = "call"
  /\ process = "none"
  /\ to_write \in 0..MaxOutput
  /\ piped = 0
  /\ output_lines = 0
  /\ return_code = 0
  /\ spawned = 0
  /\ wrote = 0
  /\ sink = <<>>

StreamIdle ==
  /\ spc = "idle"
  /\ process = "none"
  /\ to_write = 0
  /\ piped = 0
  /\ output_lines = 0
  /\ return_code = 0
  /\ spawned = 0
  /\ wrote = 0
  /\ sink = <<>>

notStream == <<storeVars, ctlVars, parseVars, excerptVars, restVars>>

\* lines 246-256: subprocess.Popen starts the child, or raises
Popen(spawnOK) ==
  /\ spc = "call"
  /\ IF spawnOK
     THEN /\ process' = "running"
          /\ spawned' = spawned + 1
          /\ spc' = "loop"
     ELSE /\ spc' = "returned"
          /\ UNCHANGED <<process, spawned>>
  /\ output_lines' = 0
  /\ wrote' = 0
  /\ UNCHANGED <<notStream, to_write, piped, return_code, sink>>

\* the child writes one line into the pipe
child_write ==
  /\ process = "running" /\ to_write > 0
  /\ to_write' = to_write - 1
  /\ piped' = piped + 1
  /\ wrote' = wrote + 1
  /\ UNCHANGED <<notStream, spc, process, output_lines, return_code, spawned, sink>>

\* the child has written everything and exits with some status
child_exit(status) ==
  /\ process = "running" /\ to_write = 0
  /\ process' = "exited"
  /\ return_code' = status
  /\ UNCHANGED <<notStream, spc, to_write, piped, output_lines, spawned, wrote, sink>>

\* lines 257-260: readline yields the next line of the pipe, which goes to output
\* and to the callback; an exception of the callback is caught at line 338 and
\* run_backtest returns the failure
readline(callbackOK) ==
  /\ spc = "loop" /\ piped > 0
  /\ piped' = piped - 1
  /\ output_lines' = output_lines + 1
  /\ sink' = Append(sink, [child |-> spawned, line |-> output_lines + 1])
  /\ spc' = IF callbackOK THEN "loop" ELSE "returned"
  /\ UNCHANGED <<notStream, process, to_write, return_code, spawned, wrote>>

\* a read that takes an empty pipe for the end of the file
PipeEmpty == piped = 0

\* line 257: readline yields '' once the pipe is empty and the child, its only
\* writer, has exited
EndOfFile == piped = 0 /\ process = "exited"

\* lines 257, 262: at end of file the loop ends and the pipe is closed
end_of_file ==
  /\ spc = "loop" /\ EndOfFile
  /\ spc' = "wait"
  /\ UNCHANGED <<notStream, process, to_write, piped, output_lines, return_code,
                 spawned, wrote, sink>>

\* line 263: process.wait() returns once the child has exited, and reaps it
wait ==
  /\ spc = "wait" /\ process = "exited"
  /\ process' = "reaped"
  /\ spc' = "after"
  /\ UNCHANGED <<notStream, to_write, piped, output_lines, return_code, spawned,
                 wrote, sink>>

\* lines 265-304: status 0 returns the results; otherwise fix_strategy and, when
\* it succeeded, run_backtest again with the fixed code, which writes anew
stream_return(fixed, lines) ==
  /\ spc = "after"
  /\ IF return_code # 0 /\ fixed /\ spawned < MaxSpawns
     THEN /\ spc' = "call"
          /\ to_write' = lines
     ELSE /\ spc' = "returned"
          /\ UNCHANGED to_write
  /\ UNCHANGED <<notStream, process, piped, output_lines, return_code, spawned,
                 wrote, sink>>

\* the caller is interrupted while run_backtest reads or waits: the
\* KeyboardInterrupt leaves run_backtest through no handler. The child shares the
\* terminal's signal or not.
KeyboardInterrupt(childToo) ==
  /\ spc \in {"loop", "wait"}
  /\ spc' = "interrupted"
  /\ process' = IF childToo /\ process = "running" THEN "exited" ELSE process
  /\ UNCHANGED <<notStream, to_write, piped, output_lines, return_code, spawned,
                 wrote, sink>>

NextStream ==
  \/ \E spawnOK \in BOOLEAN : Popen(spawnOK)
  \/ child_write
  \/ \E status \in {0, 1} : child_exit(status)
  \/ \E callbackOK \in BOOLEAN : readline(callbackOK)
  \/ end_of_file
  \/ wait
  \/ \E fixed \in BOOLEAN, lines \in 0..MaxOutput : stream_return(fixed, lines)
  \/ \E childToo \in BOOLEAN : KeyboardInterrupt(childToo)

\* ---------------------------------------------------------------------------
\* The results of a run that exited with status 0
\* (IntegrationManager.run_backtest, _extract_paths_from_output)
\* ---------------------------------------------------------------------------

\* The three saved-to markers _extract_paths_from_output looks for.
Markers == {"log", "chart", "combined"}

\* What follows a marker on its line: a path, which either has the form the
\* marker's pattern asks for (the directory name, a backslash, then letters,
\* digits, underscores and backslashes, then the extension) or has not (a
\* forward slash, a hyphen, a directory in front of the directory name).
AnnouncedPaths == [name : 1..MaxPaths, form : {"pattern", "other"}]

NoMarker == [marker |-> "none"]
OutputLines == {NoMarker} \cup [marker : Markers, path : AnnouncedPaths]

RECURSIVE OutputsOfLen(_)
OutputsOfLen(n) ==
  IF n = 0 THEN {<<>>}
  ELSE {Append(o, l) : o \in OutputsOfLen(n - 1), l \in OutputLines}

Outputs == UNION {OutputsOfLen(n) : n \in 0..MaxOutLines}

\* The paths the lines of one marker announce, in order of appearance.
Announced(marker, output) ==
  LET announces(l) == l.marker = marker
      lines == SelectSeq(output, announces)
  IN [k \in 1..Len(lines) |-> lines[k].path]

\* re.findall of one marker's pattern: the announced paths the pattern matches.
findall(marker, output) ==
  LET matches(p) == p.form = "pattern"
  IN SelectSeq(Announced(marker, output), matches)

\* log_path = log_matches[0], or None: kept as a sequence of at most one path.
FirstMatch(matches) == IF matches = <<>> THEN <<>> ELSE <<Head(matches)>>
EveryMatch(matches) == matches

extract_paths_from_output(output) ==
  [log_path |-> FirstMatch(findall("log", output)),
   chart_paths |-> findall("chart", output) \o findall("combined", output)]

NoResults == [done |-> FALSE]

ResultsIdle == full_output = <<>> /\ backtest_results = NoResults
InitResults == full_output \in Outputs /\ backtest_results = NoResults

\* The branch of run_backtest after the child exited with status 0. The
\* analysis is a string whether the remote service answers or not
\* (analyze_backtest_results returns the failure text from its except), so it
\* is stored either way.
run_backtest_exit_zero(analysisOK) ==
  /\ ~backtest_results.done
  /\ LET paths == extract_paths_from_output(full_output)
         found == paths.log_path # <<>> \/ paths.chart_paths # <<>>
     IN backtest_results' =
          [done |-> TRUE,
           success |-> TRUE,
           output |-> full_output,
           has_paths |-> found,
           log_path |-> paths.log_path,
           chart_paths |-> paths.chart_paths,
           analysis |-> IF analysisOK THEN "analysis" ELSE "failure_text"]
  /\ UNCHANGED <<storeVars, ctlVars, parseVars, excerptVars, streamVars,
                 sessionVars, full_output>>

NextResults == \E analysisOK \in BOOLEAN : run_backtest_exit_zero(analysisOK)

\* ---------------------------------------------------------------------------
\* Two IntegrationManager sessions in one working directory. Every session
\* writes below the relative directory "ai_strategies", under a name made of
\* datetime.now() to the second or under the name its caller gave.
\* ---------------------------------------------------------------------------

Sessions == {"first", "second"}
Nobody == "nobody"

NotWritten == [writers |-> {}, last |-> Nobody]

NewSession ==
  [code |-> FALSE, path |-> NoPath, pc |-> "idle", executed |-> Nobody]

SessionsIdle ==
  /\ sessions = [s \in Sessions |-> NewSession]
  /\ directory = [p \in Paths |-> NotWritten]
  /\ clock = 0

InitSessions == SessionsIdle

\* open(path, 'w') and f.write(...) by session s
WrittenBy(s, path) ==
  [directory EXCEPT ![path] = [writers |-> @.writers \cup {s}, last |-> s]]

\* generate_strategy with a reply that holds code: lines 157-159
session_generate_strategy(s) ==
  /\ sessions[s].pc = "idle"
  /\ ~sessions[s].code
  /\ sessions' = [sessions EXCEPT ![s].code = TRUE]
  /\ UNCHANGED <<storeVars, ctlVars, parseVars, excerptVars, streamVars,
                 resultVars, directory, clock>>

session_save_strategy(s, named) ==
  /\ sessions[s].pc = "idle"
  /\ sessions[s].code
  /\ LET save_path == IF named THEN NamedPath ELSE RunPath(clock)
     IN /\ directory' = WrittenBy(s, save_path)
        /\ sessions' = [sessions EXCEPT ![s].path = save_path]
  /\ UNCHANGED <<storeVars, ctlVars, parseVars, excerptVars, streamVars,
                 resultVars, clock>>

\* modify_strategy with a reply that holds code: lines 643-651
session_modify_strategy(s) ==
  /\ sessions[s].pc = "idle"
  /\ sessions[s].code
  /\ directory' = WrittenBy(s, ModPath(clock))
  /\ sessions' = [sessions EXCEPT ![s].path = ModPath(clock)]
  /\ UNCHANGED <<storeVars, ctlVars, parseVars, excerptVars, streamVars,
                 resultVars, clock>>

\* run_backtest up to the start of the child: lines 221-234
session_run_backtest(s, given) ==
  /\ sessions[s].pc = "idle"
  /\ given \/ sessions[s].code
  /\ IF sessions[s].path = NoPath \/ given
     THEN /\ directory' = WrittenBy(s, RunPath(clock))
          /\ sessions' = [sessions EXCEPT ![s].path = RunPath(clock),
                                          ![s].pc = "saved"]
     ELSE /\ directory' = directory
          /\ sessions' = [sessions EXCEPT ![s].pc = "saved"]
  /\ UNCHANGED <<storeVars, ctlVars, parseVars, excerptVars, streamVars,
                 resultVars, clock>>

\* the child [sys.executable, self.current_strategy_path] reads the file
session_execute(s) ==
  /\ sessions[s].pc = "saved"
  /\ sessions' = [sessions EXCEPT ![s].executed = directory[sessions[s].path].last,
                                  ![s].pc = "idle"]
  /\ UNCHANGED <<storeVars, ctlVars, parseVars, excerptVars, streamVars,
                 resultVars, directory, clock>>

\* a second passes
session_tick ==
  /\ clock < MaxTime
  /\ clock' = clock + 1
  /\ UNCHANGED <<storeVars, ctlVars, parseVars, excerptVars, streamVars,
                 resultVars, sessions, directory>>

NextSessions ==
  \/ \E s \in Sessions : session_generate_strategy(s)
  \/ \E s \in Sessions, named \in BOOLEAN : session_save_strategy(s, named)
  \/ \E s \in Sessions : session_modify_strategy(s)
  \/ \E s \in Sessions, given \in BOOLEAN : session_run_backtest(s, given)
  \/ \E s \in Sessions : session_execute(s)
  \/ session_tick

RestIdle == ResultsIdle /\ SessionsIdle

NextStore ==
  \/ \E role \in Roles, content \in Contents : add_message(role, content)
  \/ \E reply \in Replies : get_response(reply)
  \/ \E reply \in Replies : get_stream_response(reply)

\* the contents of the conversations that are reset, saved and loaded
KeptContents == {SmallText, BigText, SurrogateText, NoneContent}

NextConversation ==
  \/ \E role \in Roles, content \in KeptContents : add_message(role, content)
  \/ \E content \in KeptContents : get_response(Reply(FALSE, content))
  \/ get_response(Reply(TRUE, NoneContent))
  \/ reset_messages
  \/ clear_conversation
  \/ save_conversation
  \/ load_conversation

\* every public operation of the store, the file being any file of a list
NextFiles ==
  \/ \E role \in Roles, content \in KeptContents : add_message(role, content)
  \/ \E content \in KeptContents : get_response(Reply(FALSE, content))
  \/ get_response(Reply(TRUE, NoneContent))
  \/ \E content \in KeptContents : get_stream_response(Reply(FALSE, content))
  \/ get_stream_response(Reply(TRUE, NoneContent))
  \/ reset_messages
  \/ clear_conversation
  \/ save_conversation
  \/ load_conversation
  \/ \E file \in OtherFiles : load_conversation_of(file)

\* the calls that lengthen a long conversation
NextTrim ==
  \/ \E role \in {"user", "assistant"}, content \in {SmallText, BigText} :
       add_message(role, content)
  \/ \E content \in {SmallText, BigText} : get_response(Reply(FALSE, content))

Init ==
  InitStore /\ InitCtl("none") /\ ParseIdle /\ ExcerptIdle /\ StreamIdle /\ RestIdle

\* the conversation store alone: no controller is constructed
Spec == Init /\ [][NextStore]_vars

\* the conversation store with its resets and its file
SpecConversation == Init /\ [][NextConversation]_vars

\* the conversation store from a conversation of many messages on
InitTrim ==
  InitHistory /\ InitCtl("none") /\ ParseIdle /\ ExcerptIdle /\ StreamIdle /\ RestIdle
SpecTrim == InitTrim /\ [][NextTrim]_vars

\* the conversation store with files of any origin
SpecFiles == Init /\ [][NextFiles]_vars

\* a session constructs one of the two controllers
InitSession ==
  /\ InitStore
  /\ ParseIdle
  /\ ExcerptIdle
  /\ StreamIdle
  /\ RestIdle
  /\ \E c \in {"IntegrationManager", "WorkflowManager"} : InitCtl(c)

NextCtl == Tick \/ NextIM \/ NextWF

SpecCtl == InitSession /\ [][NextCtl]_vars

\* a session of the IntegrationManager in which the conversation is reset
\* between the calls, all of them within one second of the clock
InitManager ==
  /\ InitStore
  /\ ParseIdle
  /\ ExcerptIdle
  /\ StreamIdle
  /\ RestIdle
  /\ InitCtl("IntegrationManager")

NextManager == NextIM \/ reset_conversation_of_manager

SpecManager == InitManager /\ [][NextManager]_vars

\* the parser applied to one text
InitText ==
  InitStore /\ InitCtl("none") /\ InitParse /\ ExcerptIdle /\ StreamIdle /\ RestIdle

SpecParse == InitText /\ [][NextParse]_vars

\* the excerpt of one failed execution
InitOutput ==
  InitStore /\ InitCtl("none") /\ ParseIdle /\ InitExcerpt /\ StreamIdle /\ RestIdle

SpecExcerpt == InitOutput /\ [][NextExcerpt]_vars

\* one call of run_backtest with stream and a callback
InitRun ==
  InitStore /\ InitCtl("none") /\ ParseIdle /\ ExcerptIdle /\ InitStream /\ RestIdle

SpecStream == InitRun /\ [][NextStream]_vars

InitOutputOfRun ==
  /\ InitStore /\ InitCtl("none") /\ ParseIdle /\ ExcerptIdle /\ StreamIdle
  /\ InitResults /\ SessionsIdle

SpecResults == InitOutputOfRun /\ [][NextResults]_vars

InitTwoSessions ==
  /\ InitStore /\ InitCtl("none") /\ ParseIdle /\ ExcerptIdle /\ StreamIdle
  /\ ResultsIdle /\ InitSessions

SpecSessions == InitTwoSessions /\ [][NextSessions]_vars

(***************************************************************************)
(* The conversation store: properties.                                     *)
(***************************************************************************)
AddReturned == op = "add_message" /\ ret = "returned"

\* add_message returned after its trim changed the conversation
Trimmed == AddReturned /\ messages # Append(pre, last)

\* C4: after initialisation and after any sequence of add_message calls, with or
\* without trimming, messages is non-empty and its first message has role system.
C4_SystemFirst == Len(messages) >= 1 /\ messages[1].role = "system"

\* C4 witness: an add_message whose trim dropped something has returned.
C4_Witness == Trimmed /\ Len(messages) < Len(pre) + 1

\* C5: after add_message returns, the estimated size is at most max_tokens or the
\* conversation is exactly [system message, last appended message].
C5_SizeBounded ==
  AddReturned =>
    \/ count_messages_tokens(messages) <= max_tokens
    \/ messages = <<SystemMessage, last>>

\* C6: after add_message returns, the last element of messages is the message
\* just appended.
C6_NewestKept == AddReturned => messages[Len(messages)] = last

\* C7: the messages of the conversation stand in the order in which they were
\* appended: an older message never follows a newer one.
C7_OrderKept ==
  \A i, j \in 1..Len(messages) : i < j => messages[i].seq < messages[j].seq

ResponseFailed == op \in {"get_response", "get_stream_response"} /\ ret = "failure"

\* C8: when get_response or get_stream_response returns the failure text, messages
\* is exactly what it was before the call.
C8_FailureLeavesMessages == ResponseFailed => messages = pre

\* size estimation fails for a message: the tokenizer does not encode its content
EstimationFails(msgs) == \E i \in 1..Len(msgs) : ~msgs[i].content.encodes

\* C9: add_message never raises, and when size estimation fails for a message of
\* the conversation it leaves exactly [system message, last message].
C9_NeverRaises ==
  op = "add_message" =>
    /\ ret = "returned"
    /\ EstimationFails(Append(pre, last)) => messages = <<SystemMessage, last>>

(***************************************************************************)
(* The controllers: properties.                                            *)
(***************************************************************************)
\* C1: a call of IntegrationManager.run_backtest makes at most MAX_ITERATIONS fix
\* attempts (calls of fix_strategy) before it returns.
C1_FixAttemptsBounded == IsIM => fixes <= MAX_ITERATIONS

\* C2, as claimed: when _run_backtest_and_report returns the budget-exhausted
\* result, it has made exactly MAX_ITERATIONS fix requests.
C2_ExactlyMaxFixRequests ==
  (IsWF /\ pc = "done" /\ result = "exhausted") => fixes = MAX_ITERATIONS

\* C2, amended: while every execution fails and every fix reply holds code, the
\* loop goes on with as many fix requests as failed executions, below the
\* budget; it returns the budget-exhausted result after exactly MAX_ITERATIONS
\* executions and MAX_ITERATIONS - 1 fix requests.
C2_ExhaustedAfterBudget ==
  IsWF =>
    /\ pc = "run" =>
         /\ iteration_count < MAX_ITERATIONS
         /\ execs = iteration_count
         /\ fixes = iteration_count
    /\ (pc = "done" /\ result = "exhausted") =>
         /\ execs = MAX_ITERATIONS
         /\ fixes = MAX_ITERATIONS - 1

\* C2 witness: the loop has returned the budget-exhausted result.
C2_Witness == IsWF /\ pc = "done" /\ result = "exhausted" /\ ~missed

FailureResults == {"failed", "unrepairable"}

\* C3: in both controllers, once a fix reply of a call held no extractable code,
\* the call has returned a failure result, and within that call the artifact is
\* not executed again and no further request goes to the remote service.
C3_MissReturnsAtOnce ==
  /\ [](missed => pc = "done" /\ result \in FailureResults)
  /\ [][(missed /\ missed') => (execs' = execs /\ requests' = requests)]_vars

\* C3 witness: a fix reply without code has ended a call after an earlier fix of
\* the same call had succeeded.
C3_Witness == missed /\ pc = "done" /\ fixes >= 2

\* C10: as long as no write to disk has failed, a recorded
\* current_strategy_path names a file that holds current_strategy_code between
\* the operations, and run_backtest without a code argument executes the code
\* that was current when it was called.
C10_PathHoldsCurrentCode ==
  (IsIM /\ ~write_failed) =>
    /\ (pc \in {"idle", "done"} /\ current_strategy_path # NoPath) =>
         files[current_strategy_path] = current_strategy_code
    /\ (execs = 1 /\ depth = 0 /\ strategy_code = NoCode) =>
         executed = code_to_use

(***************************************************************************)
(* CodeParser: properties.                                                 *)
(***************************************************************************)
\* the fenced blocks of a text: the lines between a fence and the next fence
RECURSIVE BlocksOf(_)
BlocksOf(lines) ==
  LET j == FirstFence(lines, 1)
      k == IF j = 0 THEN 0 ELSE FirstFence(lines, j + 1)
  IN IF k = 0 THEN <<>>
     ELSE <<SubSeq(lines, j + 1, k - 1)>> \o BlocksOf(SubSeq(lines, k + 1, Len(lines)))

\* C11: for a text with exactly two fenced blocks, one holding the program-entry
\* marker and one not, extract_code returns the block with the marker, whichever
\* comes first and whichever is longer.
C11_MarkedBlockReturned ==
  LET blocks == BlocksOf(text)
  IN (extract_result.done /\ Len(blocks) = 2
        /\ MainBlock(blocks[1]) # MainBlock(blocks[2]))
     => extract_result.code =
          Strip(IF MainBlock(blocks[1]) THEN blocks[1] ELSE blocks[2])

\* C12: when at least one fenced block of the text passes the validity check,
\* extract_code returns a fenced block that passes it.
C12_ValidBlockReturned ==
  LET blocks == BlocksOf(text)
      valid == {i \in 1..Len(blocks) : ValidateCode(Strip(blocks[i]))}
  IN (extract_result.done /\ valid # {})
     => \E i \in valid : extract_result.code = Strip(blocks[i])

\* a text without a fenced block and without a line that is indented or begins
\* with one of the words that open a block
NoCodeShape ==
  /\ BlocksOf(text) = <<>>
  /\ \A i \in 1..Len(text) : ~Indented(text[i]) /\ ~text[i].starts

\* C13: for a text with no fenced block and no line that is indented or begins
\* with a code-introducing keyword, extract_code returns None.
C13_NoCodeNoResult == (extract_result.done /\ NoCodeShape) => extract_result.code = None

\* C13 witness: extract_code has returned for such a text, one of whose lines
\* holds a keyword and the program-entry marker further in.
C13_Witness ==
  /\ extract_result.done /\ NoCodeShape
  /\ \E i \in 1..Len(text) : text[i].kw /\ text[i].main

\* every opener has its closer, in nesting order, and nothing stays open
RECURSIVE Balanced(_, _)
Balanced(chars, stack) ==
  IF chars = <<>> THEN stack = <<>>
  ELSE IF Head(chars) \in Openers
       THEN Balanced(Tail(chars), <<Head(chars)>> \o stack)
       ELSE /\ stack # <<>>
            /\ Closer(Head(stack)) = Head(chars)
            /\ Balanced(Tail(chars), Tail(stack))

\* C14: _validate_code accepts a candidate only if its round, square and curly
\* brackets are balanced.
C14_AcceptedOnlyIfBalanced ==
  (validate_result.done /\ validate_result.valid) => Balanced(BracketsOf(text), <<>>)

(***************************************************************************)
(* The error excerpt: properties.                                          *)
(***************************************************************************)
\* the place of the first line of the output that holds a marker (0: none)
FirstMarked ==
  IF \E k \in 1..Len(error_output) : error_output[k].kind = "marker"
  THEN CHOOSE k \in 1..Len(error_output) :
         /\ error_output[k].kind = "marker"
         /\ \A j \in 1..(k - 1) : error_output[j].kind # "marker"
  ELSE 0

\* C15: when the first line with Error, Exception or Traceback is at index i of n
\* lines, the excerpt is exactly the lines from max(0, i-50) up to but excluding
\* min(n, i+50): it holds line i, has at most 100 lines and, for a marker at line
\* 100, none of lines 1-40 and none of lines 260-300.
C15_WindowAroundMarker ==
  (error_info.done /\ FirstMarked # 0) =>
    LET i == FirstMarked - 1
        n == Len(error_output)
        from == IF i - 50 > 0 THEN i - 50 ELSE 0
        to == IF i + 50 < n THEN i + 50 ELSE n
    IN /\ error_info.lines = [j \in 1..(to - from) |-> error_output[from + j]]
       /\ \E j \in 1..Len(error_info.lines) : error_info.lines[j].no = i + 1
       /\ Len(error_info.lines) <= 100
       /\ i + 1 \in {100, 101} =>
            \A j \in 1..Len(error_info.lines) :
              error_info.lines[j].no > 40 /\ error_info.lines[j].no < 260

\* C15 witness: the excerpt of a 300-line output whose first marker is at line 100.
C15_Witness ==
  error_info.done /\ Len(error_output) = 300 /\ FirstMarked = 100

\* C16: whichever branch applies, the excerpt has at most a fixed number of lines
\* that does not depend on the length of the output.
C16_ExcerptBounded ==
  error_info.done => Len(error_info.lines) <= ContextBefore + ContextAfter

\* C18: for the same lines written by the executed process, fix_strategy puts the
\* same excerpt into the repair prompt it appends to gpt_client.messages whether
\* run_backtest was called with stream and a callback or without.
C18_SameExcerptInBothModes ==
  error_info.done =>
    KindsOf(error_info.lines)
      = KindsOf(ErrorInfo(Numbered(OutputIn(~stream_mode, written))).lines)

(***************************************************************************)
(* run_backtest with stream and a callback: properties.                    *)
(***************************************************************************)
\* C17: on every exit path of run_backtest in streaming mode (normal return, an
\* exception of the caller's callback, an interrupt of the caller) the child has
\* terminated and been waited on: none is left running or unreaped.
C17_ChildReaped ==
  spc \in {"returned", "interrupted"} => process \in {"none", "reaped"}

(***************************************************************************)
(* The controllers: failures of the environment.                           *)
(***************************************************************************)
\* what generate_strategy, modify_strategy and fix_strategy return when the
\* service replied normally with a text that holds no code
NoCodeResults == {"no_strategy_code", "no_modified_code", "no_fixed_code"}

\* C19: when the remote call fails during generate_strategy, modify_strategy or
\* fix_strategy, the result returned to the caller differs from the result
\* returned when the service replies normally with text that holds no code.
C19_ServiceFailureDistinct ==
  (IsIM /\ pc = "done" /\ fault = "remote") => result \notin NoCodeResults

\* C20: when persisting the artifact or spawning the process raises inside
\* run_backtest, the call returns the failure at once, without calling
\* fix_strategy and without a request to the remote service.
C20_FatalReturnsAtOnce ==
  [][(IsIM /\ pc \in {"enter", "run"} /\ fault' \in {"write", "spawn"})
       => /\ pc' = "done" /\ result' = "error"
          /\ fixes' = fixes /\ requests' = requests /\ execs' = execs]_vars

\* C20 witness: spawning raised in a nested run_backtest, after a fix had
\* succeeded, and the call has returned.
C20_Witness == IsIM /\ fault = "spawn" /\ pc = "done" /\ depth >= 1 /\ fixes >= 1

(***************************************************************************)
(* The controllers: what leaves an operation as an exception.              *)
(***************************************************************************)
\* C21: an extraction miss, an exhausted budget and a failed execution never leave
\* generate_strategy, modify_strategy, fix_strategy, run_backtest or
\* handle_user_message as a raised exception. No operation of IntegrationManager
\* ends raised, and a call of WorkflowManager that ended raised had executed
\* nothing, asked for no fix and read no reply without code.
C21_FailuresAreReturned ==
  /\ IsIM => pc # "raised"
  /\ (IsWF /\ pc = "raised") =>
       /\ execs = 0 /\ fixes = 0 /\ ~missed
       /\ fault = "store"

\* C21 witness: a run_backtest whose executions kept failing has returned the
\* failure that the recursion limit raised.
C21_Witness ==
  IsIM /\ pc = "done" /\ result = "error" /\ fault = "recursion" /\ execs >= 2

\* the texts that the value returned for a result holds: run_backtest returns the
\* output of the failed run (line 284; line 320 returns its stderr) and drops what
\* fix_strategy returned; _run_backtest_and_report returns the error message of
\* the engine and, at line 146, the reply to the fix request
ReturnedTexts(r) ==
  IF IsIM /\ r = "failed" THEN {"output"}
  ELSE IF IsWF /\ r = "unrepairable" THEN {"error_message", "fix_reply"}
  ELSE IF IsWF /\ r = "exhausted" THEN {"error_message"}
  ELSE IF r = "success" THEN {"output", "analysis"}
  ELSE {}

\* C22: when a fix attempt yields no artifact, the result that run_backtest and
\* _run_backtest_and_report return holds the text of the fix reply.
C22_FixReplyReturned ==
  (pc = "done" /\ missed) => "fix_reply" \in ReturnedTexts(result)

(***************************************************************************)
(* The output of a run: properties.                                        *)
(***************************************************************************)
\* as many lines of the descriptor fd in lines as the process wrote to it
AllOf(fd, lines) ==
  Cardinality({k \in 1..Len(lines) : lines[k].fd = fd})
    = Cardinality({k \in 1..Len(written) : written[k].fd = fd})

\* as many lines of each kind in the text given to fix_strategy as were written
AllHanded ==
  \A kind \in {"marker", "data", "plain"} :
    Cardinality({k \in 1..Len(error_output) : error_output[k].kind = kind})
      = Cardinality({k \in 1..Len(written) : written[k].kind = kind})

\* C23: in streaming and in buffered mode alike, what the process wrote to stdout
\* and what it wrote to stderr are both in the output handed to fix_strategy, in
\* the failure message of a run that cannot be repaired and in
\* backtest_results['output'] on success; success is returned only for exit
\* status 0.
C23_OutputPreserved ==
  /\ ran => AllHanded
  /\ returned.done => AllOf("out", returned.lines) /\ AllOf("err", returned.lines)
  /\ returned.success => returned.exit_zero

\* the lines the callback got from the child that ran last, in the order of the
\* calls
OfThisChild(call) == call.child = spawned
LinesToSink ==
  LET calls_ == SelectSeq(sink, OfThisChild)
  IN [k \in 1..Len(calls_) |-> calls_[k].line]

\* C24: in streaming mode, when the read loop has ended and before the child is
\* waited on, the callback has been called exactly once for each line the child
\* wrote, in the order of writing, and the lines collected in output are the
\* lines given to the callback.
C24_EveryLineToSink ==
  spc \in {"wait", "after"} =>
    /\ LinesToSink = [k \in 1..wrote |-> k]
    /\ output_lines = Len(LinesToSink)

\* C24 witness: the loop has ended for a second child, which wrote two lines or
\* more, and the child is not waited on yet.
C24_Witness == spc = "wait" /\ spawned = 2 /\ wrote >= 2 /\ process = "exited"

\* C25: when the child exited with status 0, run_backtest returned success
\* with a payload that holds the run's output and every path a saved-to marker
\* of that output announces: the report's path as log_path, the chart paths
\* and then the combined-chart paths, each in order of appearance, as
\* chart_paths; whether or not the analysis request succeeded.
C25_PathsSurfaced ==
  backtest_results.done =>
    /\ backtest_results.success
    /\ backtest_results.output = full_output
    /\ backtest_results.log_path = Announced("log", full_output)
    /\ backtest_results.chart_paths =
         Announced("chart", full_output) \o Announced("combined", full_output)

\* C26: two sessions never write the same path, and no session executes a
\* file whose content another session wrote.
C26_NoSharedArtifact ==
  /\ \A p \in Paths : Cardinality(directory[p].writers) <= 1
  /\ \A s \in Sessions : sessions[s].executed \in {Nobody, s}

\* C27: after reset_messages or clear_conversation, called once or several
\* times in a row from any conversation, the messages are exactly the one
\* system message of the original system prompt.
C27_ResetIdempotent == resets >= 1 => messages = <<SystemMessage>>

\* a second reset in a row, after a conversation of several messages
C27_Witness ==
  /\ resets = MaxResets
  /\ op \in {"reset_messages", "clear_conversation"}
  /\ appended >= 2
  /\ pre = <<SystemMessage>>

\* C28: load_conversation right after save_conversation: both return True and
\* the messages are, element by element, the ones that were saved.
C28_RoundTrip ==
  [][(op = "save_conversation" /\ op' = "load_conversation")
       => (ret = "True" /\ ret' = "True" /\ messages' = messages)]_vars

\* the bounds of the count and of the executions, and their relation while
\* the loop runs
InBudget ==
  IsWF =>
    /\ iteration_count \in 0..MAX_ITERATIONS
    /\ execs <= MAX_ITERATIONS
    /\ pc = "run" => iteration_count = execs

\* what one turn of the loop does to the count
OneTurn ==
  (IsWF /\ pc = "run") =>
    /\ iteration_count' \in {iteration_count, iteration_count + 1}
    /\ iteration_count' = iteration_count + 1 => execs' = execs + 1
    /\ (pc' = "done" /\ result' = "success") =>
         (iteration_count' = iteration_count /\ execs' = execs + 1)
    /\ (pc' = "done" /\ result' \in {"exhausted", "unrepairable"}) =>
         iteration_count' = execs'

\* C29: in WorkflowManager the iteration count stays within 0..MAX_ITERATIONS
\* and the code is executed at most MAX_ITERATIONS times in one call; while the
\* loop of _run_backtest_and_report runs, the count is the number of
\* executions so far (all of them failed); no turn of the loop lowers it or
\* raises it by more than one; the turn that ends the call on a failure
\* leaves it at the number of executions, and the turn that ends the call on
\* a success leaves it as it was.
C29_CountWithinBudget == []InBudget /\ [][OneTurn]_vars

\* the call that used up its budget
C29_Witness ==
  /\ IsWF /\ pc = "done" /\ result = "exhausted"
  /\ iteration_count = MAX_ITERATIONS
  /\ execs = MAX_ITERATIONS

\* what one step of IntegrationManager does to current_strategy_code
CodeStep ==
  IsIM =>
    /\ current_strategy_code' # current_strategy_code =>
         (new_code' # NoCode /\ current_strategy_code' = new_code')
    /\ (calls' = calls + 1 /\ fault' \in {"remote", "null_reply"}) =>
         current_strategy_code' = current_strategy_code
    /\ (pc' = "done" /\ result' \in NoCodeResults) =>
         current_strategy_code' = current_strategy_code
    /\ current_strategy_code # NoCode => current_strategy_code' # NoCode

\* C30: a step of IntegrationManager changes current_strategy_code only when
\* extract_code returned code in it, and then to exactly that code; a step
\* whose request failed or whose reply held no code leaves it as it was; and
\* code that is there is never replaced by no code.
C30_CodeSetOnlyToArtifact == [][CodeStep]_vars

\* generate_strategy whose request failed, with code from an earlier call kept
C30_Witness ==
  /\ IsIM /\ pc = "done" /\ result = "no_strategy_code"
  /\ fault = "remote"
  /\ new_code = NoCode
  /\ current_strategy_code # NoCode

\* the places of the lines of the output that hold a data keyword and no marker
DataPlaces == {k \in 1..Len(error_output) : error_output[k].kind = "data"}

\* the lines of the output from index from up to but excluding index to
Slice(from, to) == [j \in 1..(to - from) |-> error_output[from + j]]

C32_DataWindow ==
  (error_info.done /\ FirstMarked = 0 /\ DataPlaces # {}) =>
    LET n == Len(error_output)
        f == (CHOOSE k \in DataPlaces : \A j \in DataPlaces : k <= j) - 1
        l == (CHOOSE k \in DataPlaces : \A j \in DataPlaces : k >= j) - 1
    IN error_info.lines =
         Slice(IF f - 10 > 0 THEN f - 10 ELSE 0, IF l + 20 < n THEN l + 20 ELSE n)

\* the excerpt of an output with data keywords on two lines far apart, the
\* window cut at neither end of the output
C32_Witness ==
  /\ error_info.done /\ FirstMarked = 0
  /\ \E f, l \in DataPlaces : f > 11 /\ l > f + 30 /\ l + 20 < Len(error_output)
  /\ Len(error_info.lines) > 100

\* the candidate blocks of the unfenced scan of the text
Candidates == Scan(text, FALSE, <<>>, <<>>)

\* the places of the candidates that are longer than 50 characters and valid
ValidPlaces == {i \in 1..Len(Candidates) : ValidBlock(Candidates[i])}

\* the candidates of a set of places that no candidate of the set exceeds in length
LongestOf(places) ==
  {Candidates[i] : i \in {i \in places :
                            \A j \in places : CodeLen(Candidates[j]) <= CodeLen(Candidates[i])}}

NoFenceAccepted == FromFences(text, code_block_patterns) = None

\* C33: when no fenced block is accepted, extract_code returns the longest
\* valid candidate that holds the program-entry marker if there is one,
\* otherwise the longest that holds def strategy_function or def initialize,
\* otherwise the longest valid candidate, and None without a valid candidate.
C33_UnfencedRanking ==
  (extract_result.done /\ NoFenceAccepted) =>
    LET mains == {i \in ValidPlaces : Holds(Candidates[i], "main")}
        strategies == {i \in ValidPlaces : Holds(Candidates[i], "strat")}
    IN IF ValidPlaces = {} THEN extract_result.code = None
       ELSE IF mains # {} THEN extract_result.code \in LongestOf(mains)
       ELSE IF strategies # {} THEN extract_result.code \in LongestOf(strategies)
       ELSE extract_result.code \in LongestOf(ValidPlaces)

\* a text whose valid candidate with the program-entry marker is shorter than
\* another valid candidate
C33_Witness ==
  /\ extract_result.done /\ NoFenceAccepted
  /\ \E i, j \in ValidPlaces :
       /\ Holds(Candidates[i], "main") /\ ~Holds(Candidates[j], "main")
       /\ CodeLen(Candidates[i]) < CodeLen(Candidates[j])
       /\ extract_result.code = Candidates[i]

\* C34: extract_code returns None or a text for which _validate_code is true.
C34_ReturnsValidOrNone ==
  extract_result.done =>
    (extract_result.code = None \/ ValidateCode(extract_result.code))

\* a text with a fenced block and an unfenced candidate that both fail the
\* check, from which extract_code returned another candidate
C34_Witness ==
  /\ extract_result.done /\ extract_result.code # None
  /\ NoFenceAccepted
  /\ \E k \in 1..Len(code_block_patterns) : FindAll(text, code_block_patterns[k], 1) # <<>>
  /\ \E i \in 1..Len(Candidates) :
       LongEnough(Candidates[i]) /\ ~ValidateCode(Candidates[i])

\* the appended message as it stands in the conversation (none: it was dropped)
Stored == {i \in 1..Len(messages) : messages[i].seq = last.seq}

\* C35: after add_message returns, a message whose estimated size exceeded half
\* of max_tokens stands in the conversation with the leading 70% of its
\* content, and a message below that size with its content unchanged.
C35_LargeTruncated ==
  AddReturned =>
    \A i \in Stored :
      IF 2 * count_tokens(last.content) > max_tokens
      THEN messages[i].content.chars = (7 * last.content.chars) \div 10
      ELSE messages[i].content = last.content

\* what IntegrationManager.reset_conversation leaves as it was
StrategyKept ==
  UNCHANGED <<current_strategy_code, current_strategy_path, files, executed,
              backtest_results>>

\* C36: IntegrationManager.reset_conversation leaves gpt_client.messages with
\* the system message alone and conversation_history empty, and leaves the
\* strategy code, its path and file and the results as they were; a
\* run_backtest without argument that comes later runs the code held then,
\* and modify_strategy still finds code.
C36_ResetKeepsStrategy ==
  /\ [][reset_conversation_of_manager =>
          /\ conversation' = NoConversation
          /\ StrategyKept]_vars
  /\ []((IsIM /\ pc = "run" /\ strategy_code = NoCode) =>
          (code_to_use = current_strategy_code /\ code_to_use # NoCode))

\* a strategy was generated, the conversation was reset, and run_backtest
\* without argument is about to run the strategy
C36_Witness ==
  /\ IsIM /\ pc = "run"
  /\ conversation = NoConversation
  /\ strategy_code = NoCode
  /\ code_to_use = current_strategy_code
  /\ current_strategy_code # NoCode

(***************************************************************************)
(* The conversation store: its operations together.                        *)
(***************************************************************************)
\* C37: after any sequence of the public operations of the store, loading any
\* persisted list of messages included, messages is not empty and its first
\* element has the role system.
C37_InvariantEverywhere == messages # <<>> /\ messages[1].role = "system"


\* the conversation the trim of add_message was given
BeforeTrim == Append(pre, last)

\* the messages after the first that the trim was given / that it left
Given == {BeforeTrim[j].seq : j \in 2..Len(BeforeTrim)}
Retained == {messages[i].seq : i \in 2..Len(messages)}

\* the messages of the newest max_history_messages groups
NewestGroups ==
  LET groups == Pairs(Tail(BeforeTrim))
      from == IF Len(groups) <= max_history_messages THEN 1
              ELSE Len(groups) - max_history_messages + 1
  IN UNION {{groups[g][j].seq : j \in 1..Len(groups[g])} : g \in from..Len(groups)}

\* add_message returned after its trim removed something
Removed == AddReturned /\ Len(messages) < Len(BeforeTrim)

C39_TrimIdempotent == Removed => trim_conversation_history(messages) = messages

\* load_conversation failed: the file is not there or json.load raised on it
LoadFailed == op = "load_conversation" /\ ret = "False"

\* C40: a load_conversation that fails (the file is missing, unreadable or
\* does not parse) returns False and leaves messages exactly as they were
\* before the call; save_conversation never modifies messages, whether it
\* succeeds or fails.
C40_FailuresLeaveMessages ==
  /\ [][(op' = "load_conversation" /\ ~(saved.exists /\ saved.complete))
         => (ret' = "False" /\ messages' = messages)]_vars
  /\ [][op' = "save_conversation" => messages' = messages]_vars
  /\ []((LoadFailed \/ op = "save_conversation") => messages = pre)

\* a load has failed on the file that a failed save left cut off, in a
\* conversation of several messages
C40_Witness ==
  /\ LoadFailed
  /\ saved.exists /\ ~saved.complete
  /\ Len(messages) >= 3
  /\ messages = pre

====
